---------------------------- MODULE Spec2Model ----------------------------
(***************************************************************************)
(* Fragment pipeline coordinator of the live-translation backend.          *)
(*                                                                         *)
(* The module models the parts of the backend, each over its own group of  *)
(* variables and each with its own specification:                          *)
(*                                                                         *)
(*   Spec / FairSpec   AudioSyncManager (audioSyncManager.js): the Sync    *)
(*                     Coordinator loop start() and the synthesis Stage    *)
(*                     Processor processFragment(), over the files of      *)
(*                     FinalTranslatedText and FinalTranslatedAudio.       *)
(*   RaceSpec          the same with a duplicate AudioSyncManager running  *)
(*                     beside the coordinator.                             *)
(*   StartSpec         the start requests of server.js / audioIntegrator   *)
(*                     and the registries that guard them.                 *)
(*   TranscriptionSpec setupTranscriptionWatcher (transcriptionHandler.js) *)
(*   TranslationSpec   setupTranslationWatcher (translationIntegrator.js)  *)
(*   RemovalSpec       Spec with MP3 files removed from outside            *)
(*   CrashSpec         Spec with the backend killed and started again      *)
(*   ExtractionSpec    extractLiveAudioChunks: the segmenter, the stderr   *)
(*                     handler that promotes fragments, the restart and    *)
(*                     stop()                                              *)
(*   ScanSpec          the directory scan and watcher of the two stages    *)
(*   EndpointSpec      the fragments list and audio endpoints of server.js *)
(*   BroadcastSpec     the WebSocket connections and broadcastNewFragment  *)
(*   StatusSpec        the four status endpoints of server.js              *)
(*   CancelSpec        Spec beside the stop() of the live extraction       *)
(*   SaveSpec          saveAudioFile (audioHandler.js)                     *)
(*   NormalSpec        extractNormalAudio: fragments and status.json       *)
(*   RestartSpec       the restarts of the live extraction pipeline        *)
(*                                                                         *)
(* Every await of the JavaScript source is a point where another callback  *)
(* may run, so every await ends one atomic step of the model.              *)
(***************************************************************************)
EXTENDS Integers, Sequences, FiniteSets, TLC

(***************************************************************************)
(* Bounds of the model.                                                    *)
(***************************************************************************)
\* number of fragment indices the upstream stages produce: 0 .. MaxFragments-1
MaxFragments == 2
\* RaceSpec: the translation stage produces the indices 0 .. RaceFragments-1
RaceFragments == 1
\* StartSpec: number of start requests made for the videoId
MaxRequests == 3
\* TranscriptionSpec: the extraction stage produces 0 .. MaxExtracted-1
MaxExtracted == 3
\* number of change notifications a watcher receives
MaxNotifications == 3
\* FairSpec: how many times external operations (the synthesis call, the
\* save, the ffmpeg conversion) fail before they succeed from then on
MaxFaults == 3
\* largest number of chunks splitIntoChunks cuts one translation text into
MaxChunks == 1
\* mp3 files carry the number of times they were written, capped here
MaxVersion == 2
\* ExtractionSpec: one run of the segmenter opens at most MaxSegments files
MaxSegments == 4
\* ExtractionSpec: how many times the extraction pipeline is restarted
MaxRestarts == 1
\* ExtractionSpec: how many calls of the stderr handler are pending at once
MaxInFlight == 2
\* ScanSpec: the scanned directory holds at most MaxEntries entries
MaxEntries == 3
\* EndpointSpec: the language directory holds at most MaxListed files
MaxListed == 3
\* EndpointSpec: the audio file served has 1 .. MaxSize bytes
MaxSize == 3
\* EndpointSpec: the byte positions a Range header names are 0 .. MaxOffset
MaxOffset == 4
\* BroadcastSpec: number of WebSocket connections made to the server
MaxSockets == 2
\* BroadcastSpec: number of calls of broadcastNewFragment
MaxBroadcasts == 2
\* SaveSpec: the buffer lengths lie within MaxDelta of the 100 byte limit
MaxDelta == 2
\* RestartSpec: number of calls of extractLiveAudioChunks for the source
MaxPipelines == 3

(***************************************************************************)
(* Program constants.                                                      *)
(***************************************************************************)
\* audioHandler.js: const MAX_RETRIES = 3
MAX_RETRIES == 3

\* saveAudioFile: a decoded buffer below this length is rejected
MinAudioBytes == 100

\* AudioSyncManager.languages
languages == <<"Hindi", "Sanskrit", "Marathi">>

NumLangs == Len(languages)
LangIdx == 1..NumLangs
Fragments == 0..(MaxFragments - 1)
\* The AudioSyncManager instances of one videoId: the coordinator the source
\* is meant to have, and a duplicate that a second start request constructs
\* (StartSpec shows which start requests do).  In Spec only the coordinator
\* runs; in RaceSpec both do.
Coordinators == {"coordinator", "duplicate"}

VARIABLES
    \* ---- Fragment Store, synthesis side ----
    translationFiles,   \* set of <<lang, n>>: FinalTranslatedText/<lang>/fragment-n.json exists
    wavFiles,           \* set of <<lang, n>>: FinalTranslatedAudio/<lang>/fragment-n.wav exists
    mp3Files,           \* [<<lang, n>> -> 0..MaxVersion]: 0 = fragment-n.mp3 absent, k = written k times
    partialMp3,         \* set of <<lang, n>>: fragment-n.mp3 exists and is incomplete (ffmpeg did not finish it)
    \* ---- AudioSyncManager instances ----
    pc,                 \* [Coordinators -> position in start()/processFragment()]
    currentFragment,    \* [Coordinators -> Nat]: the local currentFragment of start()
    lang,               \* [Coordinators -> LangIdx]: the language of the for-loop of processFragment
    translations,       \* [Coordinators -> [LangIdx -> text kind]]: the local translations{} of processFragment
    retryI,             \* [Coordinators -> 0..MAX_RETRIES-1]: the i of withRetry
    chunksLeft,         \* [Coordinators -> 0..MaxChunks]: chunks of generateAudio still to synthesize
    faults,             \* remaining failures of external operations (FairSpec only)
    \* ---- start requests for one videoId (server.js, audioIntegrator.js) ----
    reqKind,            \* [Requests -> the function the request called, "none" before it is made]
    reqPc,              \* [Requests -> position of the request]
    activeAudioWatchers,\* BOOLEAN: activeAudioWatchers.has(videoId)
    audioSyncManagers,  \* BOOLEAN: audioSyncManagers.has(videoId)
    isProcessing,       \* [Requests -> BOOLEAN]: isProcessing of the AudioSyncManager the request constructed
    \* ---- transcription stage (setupTranscriptionWatcher) ----
    finalExtracted,     \* set of n: ExtractedAudio/FinalExtracted/fragment-n.wav exists
    extractedText,      \* set of n: ExtractedText/fragment-n.json exists
    existingTranscriptions, \* the Set existingTranscriptions of setupTranscriptionWatcher
    trPhase,            \* position of setupTranscriptionWatcher
    sortedAudioFiles,   \* the files the initial loop has still to visit, in order
    trLoopFile,         \* the file the initial loop is transcribing ({} when none)
    trNotif,            \* [Notifications -> [file, stage]]: the change notifications of the watcher
    trStarted,          \* history: the files transcribeAudioFragment was called for
    trFailed,           \* history: the files a transcribeAudioFragment call failed for
    \* ---- translation stage (setupTranslationWatcher) ----
    englishFiles,       \* set of n: FinalTranslatedText/English/fragment-n.json exists
    existingTranslations, \* the Set existingTranslations of setupTranslationWatcher
    tlPhase,            \* position of setupTranslationWatcher
    sortedFiles,        \* the files the initial loop has still to visit, in order
    tlCall,             \* [0..MaxNotifications -> [file, stage, next]]: the processTranscription
                        \* call of the initial loop (0) and of each notification
    \* ---- extraction stage (extractLiveAudioChunks) ----
    liveStreamChoice,   \* "beginning" or "current": the argument of extractLiveAudioChunks
    ffmpegProcess,      \* "running", "killed" (a restart is scheduled), "ended" or
                        \* "stopped" (killed by stop())
    runStart,           \* position in the source, in segments, where the running pipeline started
    opened,             \* number of segment files the running segmenter has opened
    preProcessing,      \* [SegIdx -> segment]: the segment of the source held by
                        \* PreProcessing/fragment-k.wav, 0 = the file is absent
    prePartial,         \* set of k: PreProcessing/fragment-k.wav is not finished
    finalExtractedDir,  \* [SegIdx -> segment]: the same for FinalExtracted/fragment-k.wav
    finalPartial,       \* set of k: FinalExtracted/fragment-k.wav is a copy of an unfinished file
    liveCurrentFragment,\* the local currentFragment of the running extractLiveAudioChunks
    handlers,           \* the pending calls of the stderr 'data' handler, oldest first
    restarts,           \* number of times the pipeline was killed or exited with an error
    isShuttingDown,     \* the isShuttingDown of the first call of extractLiveAudioChunks
    \* ---- non-live extraction (extractNormalAudio) ----
    statusJson,         \* [status, progress]: what status.json of the source holds
    ytdlProcess,        \* "running", "closed" (exit code 0) or "failed"
    \* ---- the calls of extractLiveAudioChunks for one source (RestartSpec) ----
    chain,              \* sequence of [process, errored]: the yt-dlp process of each call,
                        \* "running" or "closed", and whether it has emitted 'error'
    restartTimers,      \* number of restart timers (setTimeout 5000) that have not fired
    \* ---- directory scanners and HTTP endpoints ----
    scanExt,            \* ".wav" (setupTranscriptionWatcher) or ".json" (setupTranslationWatcher)
    dirEntries,         \* set of file names: the entries of the directory the scanner reads
    handed,             \* set of file names the scanner has handed to its Stage Processor
    request,            \* the HTTP request being served
    response,           \* the response to it, status 0 while there is none
    \* ---- WebSocket listeners (server.js) ----
    clients,            \* the Set clients
    readyState,         \* [Sockets -> "none" (not connected yet), "OPEN", "CLOSING", "CLOSED"]
    received,           \* [Sockets -> the messages sent to the socket, in order]
    broadcasts,         \* the messages broadcastNewFragment was called with, in order
    \* ---- directories of temp_files/<videoId> ----
    dirs,               \* the stage directories that exist, a subset of StageDirs
    \* ---- one call of saveAudioFile (audioHandler.js) ----
    saveCall            \* [audioDataURI, length, file, result]: the argument, the length of
                        \* the buffer it decodes to, the size of the file at outputPath
                        \* (-1 = absent) and what the call returned ("none" before it has)

syncVars == <<translationFiles, wavFiles, mp3Files, partialMp3, pc,
              currentFragment, lang, translations, retryI, chunksLeft, faults>>

\* the synthesis side without the translation files
coordVars == <<wavFiles, mp3Files, partialMp3, pc, currentFragment, lang,
               translations, retryI, chunksLeft, faults>>

startVars == <<reqKind, reqPc, activeAudioWatchers, audioSyncManagers, isProcessing>>

trVars == <<finalExtracted, existingTranscriptions, trPhase, sortedAudioFiles,
            trLoopFile, trNotif, trStarted, trFailed>>

tlVars == <<englishFiles, existingTranslations, tlPhase, sortedFiles, tlCall>>

exVars == <<liveStreamChoice, ffmpegProcess, runStart, opened, preProcessing,
            prePartial, finalExtractedDir, finalPartial, liveCurrentFragment,
            handlers, restarts, isShuttingDown, statusJson, ytdlProcess,
            chain, restartTimers>>

ioVars == <<scanExt, dirEntries, handed, request, response,
            clients, readyState, received, broadcasts, dirs, saveCall>>

vars == <<syncVars, startVars, trVars, extractedText, tlVars, exVars, ioVars>>

Pairs == LangIdx \X Fragments

\* what processFragment can find in a translation file:
\*   "ok"    data.translation.text is a non-blank string
\*   "empty" data.translation.text is blank or missing
\*   "bad"   the file cannot be read or parsed, or has no translation field
TextKinds == {"ok", "empty", "bad"}

(***************************************************************************)
(* Fragment Store helpers                                                  *)
(***************************************************************************)
Mp3Exists(l, n) == n \in Fragments /\ mp3Files[<<l, n>>] > 0

WavExists(l, n) == <<l, n>> \in wavFiles

TranslationExists(l, n) == <<l, n>> \in translationFiles

Bump(v) == IF v < MaxVersion THEN v + 1 ELSE MaxVersion

\* mutant of hasTranslations: one language with a translation is enough
hasTranslationsOfSome(n) == \E l \in LangIdx : TranslationExists(l, n)

\* hasTranslations(fragmentNum): both branches (maxFragment > fragmentNum or not)
\* return true exactly when every language has fragment-<n>.json
hasTranslations(n) == \A l \in LangIdx : TranslationExists(l, n)

(***************************************************************************)
(* The environment of the coordinator: the translation stage writes a      *)
(* translation file.                                                       *)
(***************************************************************************)
TranslationWritten(l, n) ==
    /\ <<l, n>> \notin translationFiles
    /\ translationFiles' = translationFiles \cup {<<l, n>>}
    /\ UNCHANGED <<wavFiles, mp3Files, pc, currentFragment, lang, translations,
                   retryI, chunksLeft, faults>>

\* An external operation fails.  With bounded = TRUE (FairSpec) a failure
\* consumes one of the finitely many faults; with bounded = FALSE (Spec) it
\* may fail any number of times.
Fails(bounded) ==
    IF bounded THEN faults > 0 /\ faults' = faults - 1
               ELSE UNCHANGED faults

(***************************************************************************)
(* AudioSyncManager.start()                                                *)
(***************************************************************************)
\* mutant of StartLoop: the loop resumes at the first index that lacks an
\* output instead of starting at 0
StartLoopResumes(m) ==
    /\ pc[m] = "idle"
    /\ pc' = [pc EXCEPT ![m] = "hasTranslations"]
    /\ \E k \in 0..MaxFragments :
          /\ \A n \in 0..(k - 1), l \in LangIdx : Mp3Exists(l, n)
          /\ k \in Fragments => \E l \in LangIdx : ~Mp3Exists(l, k)
          /\ currentFragment' = [currentFragment EXCEPT ![m] = k]
    /\ UNCHANGED <<translationFiles, wavFiles, mp3Files, lang, translations,
                   retryI, chunksLeft, faults>>

\* start(): isProcessing = true, let currentFragment = 0
StartLoop(m) ==
    /\ pc[m] = "idle"
    /\ pc' = [pc EXCEPT ![m] = "hasTranslations"]
    /\ currentFragment' = [currentFragment EXCEPT ![m] = 0]
    /\ UNCHANGED <<translationFiles, wavFiles, mp3Files, lang, translations,
                   retryI, chunksLeft, faults>>

\* if (await this.hasTranslations(currentFragment)): enter the retry loop of
\* processFragment.  Otherwise the loop sleeps 5 s and rechecks the same index,
\* which changes no state (a stuttering step).
CheckTranslations(m) ==
    /\ pc[m] = "hasTranslations"
    /\ hasTranslations(currentFragment[m])
    /\ pc' = [pc EXCEPT ![m] = "processFragment"]
    /\ UNCHANGED <<translationFiles, wavFiles, mp3Files, currentFragment, lang,
                   translations, retryI, chunksLeft, faults>>


(***************************************************************************)
(* AudioSyncManager.processFragment(fragmentNum)                           *)
(***************************************************************************)
\* Lines 205-230: read the translation of every language.  What the read
\* finds is chosen here: the translation stage may rewrite a file between
\* two reads.  A read that fails for some language returns false, and
\* start() sleeps 2 s and calls processFragment again for the same index.
ReadTranslations(m) ==
    /\ pc[m] = "processFragment"
    /\ \E found \in [LangIdx -> TextKinds] :
          IF \E l \in LangIdx : found[l] = "bad"
          THEN /\ pc' = [pc EXCEPT ![m] = "retryFragment"]
               /\ UNCHANGED <<translations, lang>>
          ELSE /\ pc' = [pc EXCEPT ![m] = "accessMp3"]
               /\ translations' = [translations EXCEPT ![m] = found]
               /\ lang' = [lang EXCEPT ![m] = 1]
    /\ UNCHANGED <<translationFiles, wavFiles, mp3Files, currentFragment,
                   retryI, chunksLeft, faults>>

\* start(), lines 314-317: success was false; after 2 s the while(!success)
\* loop calls processFragment(currentFragment) again
RetryFragment(m) ==
    /\ pc[m] = "retryFragment"
    /\ pc' = [pc EXCEPT ![m] = "processFragment"]
    /\ UNCHANGED <<translationFiles, wavFiles, mp3Files, currentFragment, lang,
                   translations, retryI, chunksLeft, faults>>

\* 'break' of the while(true) of one language: the for-loop goes on to the
\* next language; after the last one processFragment returns true and start()
\* executes currentFragment++ and goes back to hasTranslations.
LanguageDone(m) ==
    IF lang[m] < NumLangs
    THEN /\ lang' = [lang EXCEPT ![m] = lang[m] + 1]
         /\ pc' = [pc EXCEPT ![m] = "accessMp3"]
         /\ UNCHANGED <<currentFragment, translations>>
    ELSE /\ lang' = [lang EXCEPT ![m] = 1]
         /\ pc' = [pc EXCEPT ![m] = "hasTranslations"]
         /\ currentFragment' = [currentFragment EXCEPT ![m] = currentFragment[m] + 1]
         /\ translations' = [translations EXCEPT ![m] = [l \in LangIdx |-> "ok"]]

\* the outer catch of the while(true), lines 278-282: log, wait 5 s, continue
Thrown(m) ==
    /\ pc' = [pc EXCEPT ![m] = "retryLanguage"]
    /\ UNCHANGED <<currentFragment, lang, translations>>

\* mutant of RetryLanguage: 'break' instead of 'continue' after the wait
RetryLanguageBreaks(m) ==
    /\ pc[m] = "retryLanguage"
    /\ LanguageDone(m)
    /\ UNCHANGED <<translationFiles, wavFiles, mp3Files, retryI, chunksLeft, faults>>

\* line 280-281: the 5 s wait is over, the while(true) tries the language again
RetryLanguage(m) ==
    /\ pc[m] = "retryLanguage"
    /\ pc' = [pc EXCEPT ![m] = "accessMp3"]
    /\ UNCHANGED <<translationFiles, wavFiles, mp3Files, currentFragment, lang,
                   translations, retryI, chunksLeft, faults>>

\* mutant of AccessMp3: the existence check looks at the WAV, not the MP3
AccessMp3ChecksWav(m) ==
    /\ pc[m] = "accessMp3"
    /\ IF WavExists(lang[m], currentFragment[m])
       THEN LanguageDone(m)
       ELSE /\ pc' = [pc EXCEPT ![m] = "accessWav"]
            /\ UNCHANGED <<currentFragment, lang, translations>>
    /\ UNCHANGED <<translationFiles, wavFiles, mp3Files, retryI, chunksLeft, faults>>

\* lines 244-248: await fs.access(mp3Path); when the MP3 exists, break
AccessMp3(m) ==
    /\ pc[m] = "accessMp3"
    /\ IF Mp3Exists(lang[m], currentFragment[m])
       THEN LanguageDone(m)
       ELSE /\ pc' = [pc EXCEPT ![m] = "accessWav"]
            /\ UNCHANGED <<currentFragment, lang, translations>>
    /\ UNCHANGED <<translationFiles, wavFiles, mp3Files, retryI, chunksLeft, faults>>

\* lines 250-252: await fs.access(audioPath); a missing WAV throws into the
\* inner catch (line 258), which generates new audio
AccessWav(m) ==
    /\ pc[m] = "accessWav"
    /\ pc' = [pc EXCEPT ![m] =
                 IF WavExists(lang[m], currentFragment[m]) THEN "convertFound"
                                                          ELSE "generateAudio"]
    /\ UNCHANGED <<translationFiles, wavFiles, mp3Files, currentFragment, lang,
                   translations, retryI, chunksLeft, faults>>

\* convertToMp3(wavPath): ffmpeg -i wav ... mp3 -y.  It succeeds only when
\* the WAV is there, and then (over)writes the MP3.
ConvertOk(m) ==
    /\ WavExists(lang[m], currentFragment[m])
    /\ mp3Files' = [mp3Files EXCEPT ![<<lang[m], currentFragment[m]>>] = Bump(@)]

\* convertToMp3 throws: the WAV is gone, or ffmpeg fails
ConvertFails(m, bounded) ==
    /\ \/ ~WavExists(lang[m], currentFragment[m]) /\ UNCHANGED faults
       \/ WavExists(lang[m], currentFragment[m]) /\ Fails(bounded)
    /\ UNCHANGED mp3Files

\* line 253: the WAV was found, convert it; an error is caught by the inner
\* catch, which generates new audio
ConvertFound(m, bounded) ==
    /\ pc[m] = "convertFound"
    /\ \/ /\ ConvertOk(m)
          /\ pc' = [pc EXCEPT ![m] = "unlinkFound"]
          /\ UNCHANGED faults
       \/ /\ ConvertFails(m, bounded)
          /\ pc' = [pc EXCEPT ![m] = "generateAudio"]
    /\ UNCHANGED <<translationFiles, wavFiles, currentFragment, lang,
                   translations, retryI, chunksLeft>>

\* line 255: await fs.unlink(audioPath), then break; ENOENT is caught by the
\* inner catch, which generates new audio
UnlinkFound(m) ==
    /\ pc[m] = "unlinkFound"
    /\ IF WavExists(lang[m], currentFragment[m])
       THEN /\ wavFiles' = wavFiles \ {<<lang[m], currentFragment[m]>>}
            /\ LanguageDone(m)
       ELSE /\ pc' = [pc EXCEPT ![m] = "generateAudio"]
            /\ UNCHANGED <<wavFiles, currentFragment, lang, translations>>
    /\ UNCHANGED <<translationFiles, mp3Files, retryI, chunksLeft, faults>>

(***************************************************************************)
(* generateAudio (audioHandler.js) as called from line 261                 *)
(***************************************************************************)
\* mutant of GenerateAudio: a language whose text is blank is passed over
GenerateAudioSkipsEmpty(m) ==
    /\ pc[m] = "generateAudio"
    /\ IF translations[m][lang[m]] = "empty"
       THEN /\ LanguageDone(m)
            /\ UNCHANGED <<retryI, chunksLeft>>
       ELSE /\ pc' = [pc EXCEPT ![m] = "callApi"]
            /\ retryI' = [retryI EXCEPT ![m] = 0]
            /\ \E c \in 1..MaxChunks : chunksLeft' = [chunksLeft EXCEPT ![m] = c]
            /\ UNCHANGED <<currentFragment, lang, translations>>
    /\ UNCHANGED <<translationFiles, wavFiles, mp3Files, faults>>

\* generateAudio, lines 172-177: blank text throws 'Empty text provided'
\* (a missing text throws a TypeError at text.trim()); otherwise the text is
\* split into chunks and the first withRetry starts at i = 0
GenerateAudio(m) ==
    /\ pc[m] = "generateAudio"
    /\ IF translations[m][lang[m]] = "empty"
       THEN /\ Thrown(m)
            /\ UNCHANGED <<retryI, chunksLeft>>
       ELSE /\ pc' = [pc EXCEPT ![m] = "callApi"]
            /\ retryI' = [retryI EXCEPT ![m] = 0]
            /\ \E c \in 1..MaxChunks : chunksLeft' = [chunksLeft EXCEPT ![m] = c]
            /\ UNCHANGED <<currentFragment, lang, translations>>
    /\ UNCHANGED <<translationFiles, wavFiles, mp3Files, faults>>

\* a withRetry whose loop makes one more attempt before it rethrows
withRetryOnceMore(m, bounded) ==
    \/ /\ UNCHANGED faults
       /\ retryI' = [retryI EXCEPT ![m] = 0]
       /\ chunksLeft' = [chunksLeft EXCEPT ![m] = chunksLeft[m] - 1]
       /\ pc' = [pc EXCEPT ![m] = IF chunksLeft[m] = 1 THEN "saveAudioFile" ELSE "callApi"]
       /\ UNCHANGED <<currentFragment, lang, translations>>
    \/ /\ Fails(bounded)
       /\ IF retryI[m] = MAX_RETRIES
          THEN /\ Thrown(m)
               /\ retryI' = [retryI EXCEPT ![m] = 0]
               /\ chunksLeft' = [chunksLeft EXCEPT ![m] = 0]
          ELSE /\ retryI' = [retryI EXCEPT ![m] = retryI[m] + 1]
               /\ UNCHANGED <<pc, chunksLeft, currentFragment, lang, translations>>

\* withRetry, lines 80-91, around the text-to-speech POST of one chunk:
\* a success goes on to the next chunk (or returns the combined audio); a
\* failure is retried until i = MAX_RETRIES - 1, where the error is rethrown
\* into the outer catch of processFragment
withRetry(m, bounded) ==
    \/ /\ UNCHANGED faults
       /\ retryI' = [retryI EXCEPT ![m] = 0]
       /\ chunksLeft' = [chunksLeft EXCEPT ![m] = chunksLeft[m] - 1]
       /\ pc' = [pc EXCEPT ![m] = IF chunksLeft[m] = 1 THEN "saveAudioFile" ELSE "callApi"]
       /\ UNCHANGED <<currentFragment, lang, translations>>
    \/ /\ Fails(bounded)
       /\ IF retryI[m] = MAX_RETRIES - 1
          THEN /\ Thrown(m)
               /\ retryI' = [retryI EXCEPT ![m] = 0]
               /\ chunksLeft' = [chunksLeft EXCEPT ![m] = 0]
          ELSE /\ retryI' = [retryI EXCEPT ![m] = retryI[m] + 1]
               /\ UNCHANGED <<pc, chunksLeft, currentFragment, lang, translations>>

CallApi(m, bounded) ==
    /\ pc[m] = "callApi"
    /\ withRetry(m, bounded)
    /\ UNCHANGED <<translationFiles, wavFiles, mp3Files>>

\* line 267: await saveAudioFile(audioData, audioPath).  saveAudioFile
\* catches its own errors and returns false; processFragment ignores the
\* result and goes on to the conversion.
SaveAudioFile(m, bounded) ==
    /\ pc[m] = "saveAudioFile"
    /\ \/ /\ wavFiles' = wavFiles \cup {<<lang[m], currentFragment[m]>>}
          /\ UNCHANGED faults
       \/ /\ Fails(bounded)
          /\ UNCHANGED wavFiles
    /\ pc' = [pc EXCEPT ![m] = "convertGenerated"]
    /\ UNCHANGED <<translationFiles, mp3Files, currentFragment, lang,
                   translations, retryI, chunksLeft>>

\* mutant of ConvertGenerated: the error of convertToMp3 is swallowed
ConvertGeneratedSwallows(m, bounded) ==
    /\ pc[m] = "convertGenerated"
    /\ \/ ConvertOk(m) /\ UNCHANGED faults
       \/ ConvertFails(m, bounded)
    /\ pc' = [pc EXCEPT ![m] = "unlinkGenerated"]
    /\ UNCHANGED <<translationFiles, wavFiles, currentFragment, lang,
                   translations, retryI, chunksLeft>>

\* line 270: await this.convertToMp3(audioPath); an error goes to the outer catch
ConvertGenerated(m, bounded) ==
    /\ pc[m] = "convertGenerated"
    /\ \/ /\ ConvertOk(m)
          /\ pc' = [pc EXCEPT ![m] = "unlinkGenerated"]
          /\ UNCHANGED <<faults, currentFragment, lang, translations>>
       \/ /\ ConvertFails(m, bounded)
          /\ Thrown(m)
    /\ UNCHANGED <<translationFiles, wavFiles, retryI, chunksLeft>>

\* line 273: await fs.unlink(audioPath), then break; ENOENT goes to the outer catch
UnlinkGenerated(m) ==
    /\ pc[m] = "unlinkGenerated"
    /\ IF WavExists(lang[m], currentFragment[m])
       THEN /\ wavFiles' = wavFiles \ {<<lang[m], currentFragment[m]>>}
            /\ LanguageDone(m)
       ELSE /\ Thrown(m)
            /\ UNCHANGED wavFiles
    /\ UNCHANGED <<translationFiles, mp3Files, retryI, chunksLeft, faults>>

(***************************************************************************)
(* The coordinator's specification                                         *)
(***************************************************************************)
\* The store a coordinator is started on: empty, or what an earlier run of
\* the coordinator that stopped at language j of index k left behind
\* (indices below k complete, index k complete for the languages before j,
\* possibly the WAV of language j saved and not yet converted).
StoreAfter(k, j, leftWav) ==
    /\ mp3Files = [p \in Pairs |->
                     IF p[2] < k \/ (p[2] = k /\ p[1] < j) THEN 1 ELSE 0]
    /\ partialMp3 = {}
    /\ wavFiles = IF leftWav /\ k \in Fragments THEN {<<j, k>>} ELSE {}
    /\ translationFiles =
         {p \in Pairs : p[2] < k \/ (p[2] = k /\ (j > 1 \/ leftWav))}

\* the instances as their constructor leaves them
CoordinatorsIdle ==
    /\ pc = [m \in Coordinators |-> "idle"]
    /\ currentFragment = [m \in Coordinators |-> 0]
    /\ lang = [m \in Coordinators |-> 1]
    /\ translations = [m \in Coordinators |-> [l \in LangIdx |-> "ok"]]
    /\ retryI = [m \in Coordinators |-> 0]
    /\ chunksLeft = [m \in Coordinators |-> 0]
    /\ faults = MaxFaults

SyncInit ==
    /\ \E k \in 0..MaxFragments, j \in LangIdx, leftWav \in BOOLEAN :
          /\ k = MaxFragments => (j = 1 /\ ~leftWav)
          /\ StoreAfter(k, j, leftWav)
    /\ CoordinatorsIdle

\* a coordinator step leaves the other parts of the backend alone
OtherParts == <<startVars, trVars, extractedText, tlVars, exVars, ioVars>>

\* a step that runs no ffmpeg leaves the MP3 files as complete as they are
SyncFrame == UNCHANGED <<OtherParts, partialMp3>>

\* convertToMp3 resolved or threw: an MP3 that ffmpeg wrote to its end is
\* complete, whatever was at its name before
ConvertFrame(m) ==
    /\ partialMp3' = IF pc'[m] \in {"unlinkFound", "unlinkGenerated"}
                       THEN partialMp3 \ {<<lang[m], currentFragment[m]>>}
                       ELSE partialMp3
    /\ UNCHANGED OtherParts

CoordinatorStep(m, bounded) ==
    \/ StartLoop(m) /\ SyncFrame
    \/ CheckTranslations(m) /\ SyncFrame
    \/ ReadTranslations(m) /\ SyncFrame
    \/ RetryFragment(m) /\ SyncFrame
    \/ AccessMp3(m) /\ SyncFrame
    \/ AccessWav(m) /\ SyncFrame
    \/ ConvertFound(m, bounded) /\ ConvertFrame(m)
    \/ UnlinkFound(m) /\ SyncFrame
    \/ GenerateAudio(m) /\ SyncFrame
    \/ CallApi(m, bounded) /\ SyncFrame
    \/ SaveAudioFile(m, bounded) /\ SyncFrame
    \/ ConvertGenerated(m, bounded) /\ ConvertFrame(m)
    \/ UnlinkGenerated(m) /\ SyncFrame
    \/ RetryLanguage(m) /\ SyncFrame

TranslationStage ==
    \E l \in LangIdx, n \in Fragments : TranslationWritten(l, n) /\ SyncFrame

(***************************************************************************)
(* Start requests: server.js startAudioWatcher / startAudioSyncManager and *)
(* audioIntegrator.js setupAudioWatcher, for one videoId.  Every request   *)
(* that gets as far as `new AudioSyncManager(videoId)` constructs its own  *)
(* instance, so isProcessing is indexed by the request.                    *)
(*                                                                         *)
(* start() has no exit: its while (true) catches every error and never     *)
(* breaks or returns (audioSyncManager.js 303-331).  The await of          *)
(* setupAudioWatcher on it therefore never resolves, setupAudioWatcher     *)
(* never returns, and the activeAudioWatchers.set of startAudioWatcher is  *)
(* never executed; there is no step for it.                                *)
(***************************************************************************)
Requests == 1..MaxRequests

StartFrame == UNCHANGED <<syncVars, trVars, extractedText, tlVars, exVars, ioVars>>

\* syncManager.start() on the instance of request r, up to the first await
\* of its loop: the isProcessing guard, then the loop runs
Start(r) ==
    IF isProcessing[r]
      THEN /\ reqPc' = [reqPc EXCEPT ![r] = "returned"]
           /\ UNCHANGED isProcessing
      ELSE /\ isProcessing' = [isProcessing EXCEPT ![r] = TRUE]
           /\ reqPc' = [reqPc EXCEPT ![r] = "start"]

\* startAudioWatcher(videoId): the registry check, then the call of
\* setupAudioWatcher up to its first await
StartAudioWatcher(r) ==
    /\ reqPc[r] = "idle"
    /\ reqKind' = [reqKind EXCEPT ![r] = "startAudioWatcher"]
    /\ reqPc' = [reqPc EXCEPT ![r] =
                   IF activeAudioWatchers THEN "returned"
                                          ELSE "ensureAudioDirectories"]
    /\ UNCHANGED <<activeAudioWatchers, audioSyncManagers, isProcessing>>
    /\ StartFrame

\* setupAudioWatcher(videoId) called directly: no check at all
SetupAudioWatcher(r) ==
    /\ reqPc[r] = "idle"
    /\ reqKind' = [reqKind EXCEPT ![r] = "setupAudioWatcher"]
    /\ reqPc' = [reqPc EXCEPT ![r] = "ensureAudioDirectories"]
    /\ UNCHANGED <<activeAudioWatchers, audioSyncManagers, isProcessing>>
    /\ StartFrame

\* ensureAudioDirectories resolved: new AudioSyncManager, start()
EnsureAudioDirectories(r) ==
    /\ reqPc[r] = "ensureAudioDirectories"
    /\ Start(r)
    /\ UNCHANGED <<reqKind, activeAudioWatchers, audioSyncManagers>>
    /\ StartFrame

\* ensureAudioDirectories rejected (mkdir failed): the error is rethrown
EnsureAudioDirectoriesThrows(r) ==
    /\ reqPc[r] = "ensureAudioDirectories"
    /\ reqPc' = [reqPc EXCEPT ![r] = "thrown"]
    /\ UNCHANGED <<reqKind, activeAudioWatchers, audioSyncManagers, isProcessing>>
    /\ StartFrame

\* startAudioSyncManager(videoId): check, construct, register, start()
StartAudioSyncManager(r) ==
    /\ reqPc[r] = "idle"
    /\ reqKind' = [reqKind EXCEPT ![r] = "startAudioSyncManager"]
    /\ IF audioSyncManagers
         THEN /\ reqPc' = [reqPc EXCEPT ![r] = "returned"]
              /\ UNCHANGED <<audioSyncManagers, isProcessing>>
         ELSE /\ audioSyncManagers' = TRUE
              /\ Start(r)
    /\ UNCHANGED activeAudioWatchers
    /\ StartFrame

\* the start() loops running for the videoId
RunningLoops == {r \in Requests : reqPc[r] = "start"}

StartIdle ==
    /\ reqKind = [r \in Requests |-> "none"]
    /\ reqPc = [r \in Requests |-> "idle"]
    /\ activeAudioWatchers = FALSE
    /\ audioSyncManagers = FALSE
    /\ isProcessing = [r \in Requests |-> FALSE]

StartNext ==
    \E r \in Requests :
       \/ StartAudioWatcher(r)
       \/ SetupAudioWatcher(r)
       \/ EnsureAudioDirectories(r)
       \/ EnsureAudioDirectoriesThrows(r)
       \/ StartAudioSyncManager(r)

(***************************************************************************)
(* The transcription stage: setupTranscriptionWatcher of                   *)
(* transcriptionHandler.js.  The extraction stage writes fragment-n.wav    *)
(* into FinalExtracted in index order; fs.watch reports a written file     *)
(* once or more, and only to a watcher that is registered when the file    *)
(* is written.  Every notification sets a timer of the same delay, so the  *)
(* timers fire in the order of the notifications.                          *)
(***************************************************************************)
AudioIdx == 0..(MaxExtracted - 1)
Notifications == 1..MaxNotifications

\* wavFiles.sort((a, b) => numA - numB): the files by ascending index
SortByIndex(S) ==
    CHOOSE q \in [1..Cardinality(S) -> S] :
        \A i, j \in 1..Cardinality(S) : i < j => q[i] < q[j]

\* the first notification not yet delivered
FreeSlot(notif, k) ==
    /\ notif[k].stage = "none"
    /\ \A j \in Notifications : j < k => notif[j].stage # "none"

\* setTimeout(..., 1000) callbacks run in the order they were set
FirstTimer(notif, k) ==
    /\ notif[k].stage = "timer"
    /\ \A j \in Notifications : j < k => notif[j].stage # "timer"

TrFrame == UNCHANGED <<syncVars, startVars, tlVars, exVars, ioVars>>

\* the extraction stage completes fragment-n.wav in FinalExtracted
ExtractFragment ==
    LET n == Cardinality(finalExtracted) IN
    /\ n \in AudioIdx
    /\ finalExtracted' = finalExtracted \cup {n}
    /\ IF trPhase = "watching"
         THEN \E k \in Notifications :
                 /\ FreeSlot(trNotif, k)
                 /\ trNotif' = [trNotif EXCEPT ![k] = [file |-> n, stage |-> "timer"]]
         ELSE UNCHANGED trNotif
    /\ UNCHANGED <<extractedText, existingTranscriptions, trPhase,
                   sortedAudioFiles, trLoopFile, trStarted, trFailed>>
    /\ TrFrame

\* watcher.on('change'): one more notification for a file of FinalExtracted
FileChange(n) ==
    /\ trPhase = "watching"
    /\ n \in finalExtracted
    /\ \E k \in Notifications :
          /\ FreeSlot(trNotif, k)
          /\ trNotif' = [trNotif EXCEPT ![k] = [file |-> n, stage |-> "timer"]]
    /\ UNCHANGED <<finalExtracted, extractedText, existingTranscriptions, trPhase,
                   sortedAudioFiles, trLoopFile, trStarted, trFailed>>
    /\ TrFrame

\* a setup that starts with an empty existingTranscriptions
GetExistingTranscriptionsEmpty ==
    /\ trPhase = "setup"
    /\ existingTranscriptions' = {}
    /\ trPhase' = "readdir"
    /\ UNCHANGED <<finalExtracted, extractedText, sortedAudioFiles, trLoopFile,
                   trNotif, trStarted, trFailed>>
    /\ TrFrame

\* existingTranscriptions from the .json files of ExtractedText
GetExistingTranscriptions ==
    /\ trPhase = "setup"
    /\ existingTranscriptions' = extractedText
    /\ trPhase' = "readdir"
    /\ UNCHANGED <<finalExtracted, extractedText, sortedAudioFiles, trLoopFile,
                   trNotif, trStarted, trFailed>>
    /\ TrFrame

\* fs.readdir(finalExtractedDir), filter, sort
ReadAudioFiles ==
    /\ trPhase = "readdir"
    /\ sortedAudioFiles' = SortByIndex(finalExtracted)
    /\ trPhase' = "initial"
    /\ UNCHANGED <<finalExtracted, extractedText, existingTranscriptions,
                   trLoopFile, trNotif, trStarted, trFailed>>
    /\ TrFrame

\* the initial loop takes its next file; it calls transcribeAudioFragment
\* unless the file is in existingTranscriptions
InitialLoop ==
    /\ trPhase = "initial"
    /\ trLoopFile = {}
    /\ sortedAudioFiles # <<>>
    /\ LET file == Head(sortedAudioFiles) IN
         IF file \in existingTranscriptions
           THEN UNCHANGED <<trLoopFile, trStarted>>
           ELSE /\ trLoopFile' = {file}
                /\ trStarted' = trStarted \cup {file}
    /\ sortedAudioFiles' = Tail(sortedAudioFiles)
    /\ UNCHANGED <<finalExtracted, extractedText, existingTranscriptions, trPhase,
                   trNotif, trFailed>>
    /\ TrFrame

\* transcribeAudioFragment of the initial loop resolved: the output is
\* written and the file is added to existingTranscriptions
InitialTranscribed ==
    /\ \E file \in trLoopFile :
          /\ extractedText' = extractedText \cup {file}
          /\ existingTranscriptions' = existingTranscriptions \cup {file}
    /\ trLoopFile' = {}
    /\ UNCHANGED <<finalExtracted, trPhase, sortedAudioFiles, trNotif,
                   trStarted, trFailed>>
    /\ TrFrame

\* transcribeAudioFragment of the initial loop rejected: the error is
\* logged and the loop goes on with the next file.  The rejection comes
\* from fs.stat (empty or missing input), from the external call, or from
\* fs.writeFile(outputPath), which writes under the final name and may
\* have created the file before it failed; nothing removes it
InitialFailed ==
    /\ \E file \in trLoopFile :
          /\ trFailed' = trFailed \cup {file}
          /\ \E created \in BOOLEAN :
                extractedText' = IF created THEN extractedText \cup {file}
                                            ELSE extractedText
    /\ trLoopFile' = {}
    /\ UNCHANGED <<finalExtracted, existingTranscriptions, trPhase,
                   sortedAudioFiles, trNotif, trStarted>>
    /\ TrFrame

\* the initial loop is through: watch(finalExtractedDir) is registered
WatchAudio ==
    /\ trPhase = "initial"
    /\ trLoopFile = {}
    /\ sortedAudioFiles = <<>>
    /\ trPhase' = "watching"
    /\ UNCHANGED <<finalExtracted, extractedText, existingTranscriptions,
                   sortedAudioFiles, trLoopFile, trNotif, trStarted, trFailed>>
    /\ TrFrame

\* the timer of a notification fires: transcribeAudioFragment is called
\* unless the file is in existingTranscriptions
AudioTimerFires(k) ==
    /\ FirstTimer(trNotif, k)
    /\ LET file == trNotif[k].file IN
         IF file \in existingTranscriptions
           THEN /\ trNotif' = [trNotif EXCEPT ![k].stage = "done"]
                /\ UNCHANGED trStarted
           ELSE /\ trNotif' = [trNotif EXCEPT ![k].stage = "transcribe"]
                /\ trStarted' = trStarted \cup {file}
    /\ UNCHANGED <<finalExtracted, extractedText, existingTranscriptions, trPhase,
                   sortedAudioFiles, trLoopFile, trFailed>>
    /\ TrFrame

\* transcribeAudioFragment of a notification resolved
WatcherTranscribed(k) ==
    /\ trNotif[k].stage = "transcribe"
    /\ extractedText' = extractedText \cup {trNotif[k].file}
    /\ existingTranscriptions' = existingTranscriptions \cup {trNotif[k].file}
    /\ trNotif' = [trNotif EXCEPT ![k].stage = "done"]
    /\ UNCHANGED <<finalExtracted, trPhase, sortedAudioFiles, trLoopFile,
                   trStarted, trFailed>>
    /\ TrFrame

\* transcribeAudioFragment of a notification rejected: the error is
\* logged; a rejected fs.writeFile(outputPath) may have created the file
WatcherFailed(k) ==
    /\ trNotif[k].stage = "transcribe"
    /\ trFailed' = trFailed \cup {trNotif[k].file}
    /\ \E created \in BOOLEAN :
          extractedText' = IF created THEN extractedText \cup {trNotif[k].file}
                                      ELSE extractedText
    /\ trNotif' = [trNotif EXCEPT ![k].stage = "done"]
    /\ UNCHANGED <<finalExtracted, existingTranscriptions, trPhase,
                   sortedAudioFiles, trLoopFile, trStarted>>
    /\ TrFrame

\* the transcribeAudioFragment calls in flight for fragment n
InFlight(n) ==
    Cardinality({k \in Notifications :
                    trNotif[k].stage = "transcribe" /\ trNotif[k].file = n})
    + (IF n \in trLoopFile THEN 1 ELSE 0)

\* a notification for n whose timer has not fired yet
TimerPending(n) ==
    \E k \in Notifications : trNotif[k].stage = "timer" /\ trNotif[k].file = n

\* the stage starts on FinalExtracted and ExtractedText as an earlier run
\* left them: i fragments extracted, the first j of them transcribed
TranscriptionStartsOn(i, j) ==
    /\ finalExtracted = 0..(i - 1)
    /\ extractedText = 0..(j - 1)
    /\ existingTranscriptions = {}
    /\ trPhase = "setup"
    /\ sortedAudioFiles = <<>>
    /\ trLoopFile = {}
    /\ trNotif = [k \in Notifications |-> [file |-> 0, stage |-> "none"]]
    /\ trStarted = {}
    /\ trFailed = {}

TranscriptionNext ==
    \/ ExtractFragment
    \/ \E n \in AudioIdx : FileChange(n)
    \/ GetExistingTranscriptions
    \/ ReadAudioFiles
    \/ InitialLoop
    \/ InitialTranscribed
    \/ InitialFailed
    \/ WatchAudio
    \/ \E k \in Notifications :
          \/ AudioTimerFires(k)
          \/ WatcherTranscribed(k)
          \/ WatcherFailed(k)

(***************************************************************************)
(* The translation stage: setupTranslationWatcher and processTranscription *)
(* of translationIntegrator.js with translateText of translationHandler.   *)
(* Of the target languages the model keeps the three the coordinator       *)
(* reads; the others are handled by the same loop in the same way.         *)
(*                                                                         *)
(* tlCall[0] is the processTranscription call of the initial loop,         *)
(* tlCall[k] the one of notification k.  A call awaits translateText, then *)
(* writes the English file, then one file per target language whose        *)
(* translation is not null; `next` is the place in targetLanguages of the  *)
(* file it writes next (0 for English).  translateText gives null for a    *)
(* language whose request failed; which languages those are is decided     *)
(* when the loop reaches them.                                             *)
(***************************************************************************)
Calls == 0..MaxNotifications

\* targetLanguages of translationHandler, restricted to the languages of
\* the coordinator, in the order of the array: Hindi, Marathi, Sanskrit
targetLanguages == <<1, 3, 2>>

NoCall == [file |-> 0, stage |-> "none", next |-> 0]

TlFrame == UNCHANGED <<coordVars, startVars, trVars, exVars, ioVars>>

\* the transcription stage writes the next fragment-n.json into ExtractedText
TranscriptionWritten ==
    LET n == Cardinality(extractedText) IN
    /\ n \in Fragments
    /\ extractedText' = extractedText \cup {n}
    /\ IF tlPhase = "watching"
         THEN \E k \in Notifications :
                 /\ FreeSlot(tlCall, k)
                 /\ tlCall' = [tlCall EXCEPT ![k] = [NoCall EXCEPT !.file = n, !.stage = "timer"]]
         ELSE UNCHANGED tlCall
    /\ UNCHANGED <<translationFiles, englishFiles, existingTranslations, tlPhase,
                   sortedFiles>>
    /\ TlFrame

\* watcher.on('change'): one more notification for a file of ExtractedText
TranscriptionChange(n) ==
    /\ tlPhase = "watching"
    /\ n \in extractedText
    /\ \E k \in Notifications :
          /\ FreeSlot(tlCall, k)
          /\ tlCall' = [tlCall EXCEPT ![k] = [NoCall EXCEPT !.file = n, !.stage = "timer"]]
    /\ UNCHANGED <<translationFiles, extractedText, englishFiles,
                   existingTranslations, tlPhase, sortedFiles>>
    /\ TlFrame

\* getExistingTranslations: the files of the English directory
getExistingTranslations ==
    /\ tlPhase = "setup"
    /\ existingTranslations' = englishFiles
    /\ tlPhase' = "readdir"
    /\ UNCHANGED <<translationFiles, extractedText, englishFiles, sortedFiles, tlCall>>
    /\ TlFrame

\* fs.readdir(transcriptionsDir), filter, sort
ReadTranscriptions ==
    /\ tlPhase = "readdir"
    /\ sortedFiles' = SortByIndex(extractedText)
    /\ tlPhase' = "initial"
    /\ UNCHANGED <<translationFiles, extractedText, englishFiles,
                   existingTranslations, tlCall>>
    /\ TlFrame

\* the initial loop takes its next file; it calls processTranscription
\* unless the file is in existingTranslations
TranslateExisting ==
    /\ tlPhase = "initial"
    /\ tlCall[0].stage = "none"
    /\ sortedFiles # <<>>
    /\ LET file == Head(sortedFiles) IN
         IF file \in existingTranslations
           THEN UNCHANGED tlCall
           ELSE tlCall' = [tlCall EXCEPT ![0] =
                             [NoCall EXCEPT !.file = file, !.stage = "translateText"]]
    /\ sortedFiles' = Tail(sortedFiles)
    /\ UNCHANGED <<translationFiles, extractedText, englishFiles,
                   existingTranslations, tlPhase>>
    /\ TlFrame

\* the initial loop is through: watch(transcriptionsDir) is registered
WatchTranscriptions ==
    /\ tlPhase = "initial"
    /\ tlCall[0].stage = "none"
    /\ sortedFiles = <<>>
    /\ tlPhase' = "watching"
    /\ UNCHANGED <<translationFiles, extractedText, englishFiles,
                   existingTranslations, sortedFiles, tlCall>>
    /\ TlFrame

\* the timer of a notification fires: processTranscription is called
\* unless the file is in existingTranslations
TextTimerFires(k) ==
    /\ FirstTimer(tlCall, k)
    /\ tlCall' = [tlCall EXCEPT ![k] =
                    IF @.file \in existingTranslations
                      THEN [NoCall EXCEPT !.stage = "done"]
                      ELSE [@ EXCEPT !.stage = "translateText"]]
    /\ UNCHANGED <<translationFiles, extractedText, englishFiles,
                   existingTranslations, tlPhase, sortedFiles>>
    /\ TlFrame

\* processTranscription returns: the initial loop ignores the result, the
\* watcher adds the file to existingTranslations when the result is true
Returns(c, result) ==
    /\ tlCall' = [tlCall EXCEPT ![c] = [NoCall EXCEPT !.stage = IF c = 0 THEN "none" ELSE "done"]]
    /\ existingTranslations' =
         IF c # 0 /\ result THEN existingTranslations \cup {tlCall[c].file}
                            ELSE existingTranslations

\* translateText resolved: the English translation was made, and each
\* target language has its translation or null
translateText(c) ==
    /\ tlCall[c].stage = "translateText"
    /\ tlCall' = [tlCall EXCEPT ![c].stage = "write", ![c].next = 0]
    /\ UNCHANGED <<translationFiles, extractedText, englishFiles,
                   existingTranslations, tlPhase, sortedFiles>>
    /\ TlFrame

\* reading the transcription or translateText threw (the detection or the
\* English translation failed): processTranscription returns false
processTranscriptionFails(c) ==
    /\ tlCall[c].stage \in {"translateText", "write"}
    /\ Returns(c, FALSE)
    /\ UNCHANGED <<translationFiles, extractedText, englishFiles, tlPhase, sortedFiles>>
    /\ TlFrame

\* one fs.writeFile of processTranscription resolved; the loop then passes
\* over the languages whose translation is null and comes to the write of
\* language q, or to its end and `return true`
processTranscription(c) ==
    /\ tlCall[c].stage = "write"
    /\ LET file == tlCall[c].file
           at == tlCall[c].next
       IN /\ IF at = 0
               THEN /\ englishFiles' = englishFiles \cup {file}
                    /\ UNCHANGED translationFiles
               ELSE /\ translationFiles' = translationFiles \cup {<<targetLanguages[at], file>>}
                    /\ UNCHANGED englishFiles
          /\ \E q \in (at + 1)..(NumLangs + 1) :
                IF q > NumLangs
                  THEN Returns(c, TRUE)
                  ELSE /\ tlCall' = [tlCall EXCEPT ![c].next = q]
                       /\ UNCHANGED existingTranslations
    /\ UNCHANGED <<extractedText, tlPhase, sortedFiles>>
    /\ TlFrame

\* the stage starts on ExtractedText and FinalTranslatedText as an earlier
\* run left them: i fragments transcribed, the first j of them translated
\* into every language
TranslationStartsOn(i, j) ==
    /\ extractedText = 0..(i - 1)
    /\ englishFiles = 0..(j - 1)
    /\ translationFiles = {p \in Pairs : p[2] < j}
    /\ existingTranslations = {}
    /\ tlPhase = "setup"
    /\ sortedFiles = <<>>
    /\ tlCall = [c \in Calls |-> NoCall]

TranslationNext ==
    \/ TranscriptionWritten
    \/ \E n \in Fragments : TranscriptionChange(n)
    \/ getExistingTranslations
    \/ ReadTranscriptions
    \/ TranslateExisting
    \/ WatchTranscriptions
    \/ \E k \in Notifications : TextTimerFires(k)
    \/ \E c \in Calls :
          \/ translateText(c)
          \/ processTranscriptionFails(c)
          \/ processTranscription(c)

(***************************************************************************)
(* Extraction stage: extractLiveAudioChunks.                               *)
(*                                                                         *)
(* yt-dlp is piped into the ffmpeg segmenter, which writes                 *)
(* PreProcessing/fragment-%d.wav, numbering the files of one run from 0,   *)
(* and prints an 'Opening' line for every file it opens.  The stderr       *)
(* 'data' handler takes such a line as the completion of the file before   *)
(* it and copies that file to FinalExtracted.  The handler is an async     *)
(* function: it reads currentFragment when it is called, awaits the lock   *)
(* check and the copy, and increments currentFragment after them, so a     *)
(* second 'Opening' line may be handled in between.  Each 'Opening' line   *)
(* is taken to arrive in a stderr chunk of its own.                        *)
(*                                                                         *)
(* A segment of the source is named by its position: segment s is the s-th *)
(* stretch of segment_time seconds of the stream.  With --live-from-start  *)
(* ('beginning') every run of the pipeline starts at position 0; otherwise *)
(* a run starts where the stream is when yt-dlp is spawned.                *)
(***************************************************************************)
SegIdx == 0..(MaxSegments - 1)

\* the segment the running segmenter writes into the k-th file it opens
SegmentAt(k) == runStart + k + 1

ExFrame == UNCHANGED <<syncVars, startVars, trVars, extractedText, tlVars, ioVars>>

\* nothing extracted yet, the pipeline has just been spawned
ExtractionStarts ==
    /\ liveStreamChoice \in {"beginning", "current"}
    /\ ffmpegProcess = "running"
    /\ runStart = 0
    /\ opened = 0
    /\ preProcessing = [k \in SegIdx |-> 0]
    /\ prePartial = {}
    /\ finalExtractedDir = [k \in SegIdx |-> 0]
    /\ finalPartial = {}
    /\ liveCurrentFragment = 0
    /\ handlers = <<>>
    /\ restarts = 0
    /\ isShuttingDown = FALSE
    /\ statusJson = [status |-> "starting", progress |-> 0]
    /\ ytdlProcess = "running"
    /\ chain = <<[process |-> "running", errored |-> FALSE]>>
    /\ restartTimers = 0

\* the extraction stage as the other specifications hold it
ExtractionIdle == ExtractionStarts /\ liveStreamChoice = "beginning"

\* a handler that takes the file just opened as complete
previousFragmentIsCurrent == liveCurrentFragment

\* the fragment the handler takes as complete when it is called
previousFragment == liveCurrentFragment - 1

\* isFileLocked: the file can be opened 'r+' whether or not another process
\* is writing it (EBUSY is not raised for that), so an existing file is
\* never reported locked; a missing file makes open throw.
isFileLocked(k) == FALSE

RemoveAt(seq, h) == [i \in 1..(Len(seq) - 1) |-> IF i < h THEN seq[i] ELSE seq[i + 1]]

\* The segmenter opens its next file, which closes the file before it, and
\* the stderr handler is called with the 'Opening' line: it computes
\* previousFragment and, when there is a previous fragment, goes to await
\* isFileLocked; otherwise it increments currentFragment at once.
Opening ==
    /\ ffmpegProcess = "running"
    /\ opened < MaxSegments
    /\ Len(handlers) < MaxInFlight
    /\ preProcessing' = [preProcessing EXCEPT ![opened] = SegmentAt(opened)]
    /\ prePartial' = (prePartial \ {opened - 1}) \cup {opened}
    /\ opened' = opened + 1
    /\ IF previousFragment >= 0
         THEN /\ handlers' = Append(handlers, [previousFragment |-> previousFragment,
                                               stage |-> "isFileLocked"])
              /\ UNCHANGED liveCurrentFragment
         ELSE /\ liveCurrentFragment' = liveCurrentFragment + 1
              /\ UNCHANGED handlers
    /\ UNCHANGED <<liveStreamChoice, ffmpegProcess, runStart, finalExtractedDir,
                   finalPartial, restarts,
                   isShuttingDown, statusJson,
                   ytdlProcess, chain,
                   restartTimers>>
    /\ ExFrame

\* await isFileLocked returns in handler h: not locked, the handler goes on
\* to moveToFinalExtracted; locked or thrown, the handler skips the copy and
\* increments currentFragment.
IsFileLockedReturns(h) ==
    /\ h \in 1..Len(handlers)
    /\ handlers[h].stage = "isFileLocked"
    /\ LET k == handlers[h].previousFragment IN
         IF preProcessing[k] # 0 /\ ~isFileLocked(k)
           THEN /\ handlers' = [handlers EXCEPT ![h].stage = "moveToFinalExtracted"]
                /\ UNCHANGED liveCurrentFragment
           ELSE /\ handlers' = RemoveAt(handlers, h)
                /\ liveCurrentFragment' = liveCurrentFragment + 1
    /\ UNCHANGED <<liveStreamChoice, ffmpegProcess, runStart, opened,
                   preProcessing, prePartial, finalExtractedDir, finalPartial,
                   restarts,
                   isShuttingDown, statusJson,
                   ytdlProcess, chain,
                   restartTimers>>
    /\ ExFrame

\* await moveToFinalExtracted returns in handler h: fs.copyFile has replaced
\* FinalExtracted/fragment-k.wav by what PreProcessing/fragment-k.wav holds,
\* and the handler increments currentFragment.
moveToFinalExtracted(h) ==
    /\ h \in 1..Len(handlers)
    /\ handlers[h].stage = "moveToFinalExtracted"
    /\ LET k == handlers[h].previousFragment IN
         /\ finalExtractedDir' = [finalExtractedDir EXCEPT ![k] = preProcessing[k]]
         /\ finalPartial' = IF k \in prePartial THEN finalPartial \cup {k}
                                                ELSE finalPartial \ {k}
    /\ handlers' = RemoveAt(handlers, h)
    /\ liveCurrentFragment' = liveCurrentFragment + 1
    /\ UNCHANGED <<liveStreamChoice, ffmpegProcess, runStart, opened,
                   preProcessing, prePartial, restarts,
                   isShuttingDown, statusJson,
                   ytdlProcess, chain,
                   restartTimers>>
    /\ ExFrame

\* The pipeline is killed by the progress check after a minute without
\* output, or yt-dlp exits with an error: the 'close' handler schedules the
\* restart.  The file the segmenter had open stays as it is.
PipelineFails ==
    /\ ffmpegProcess = "running"
    /\ restarts < MaxRestarts
    /\ ffmpegProcess' = "killed"
    /\ restarts' = restarts + 1
    /\ UNCHANGED <<liveStreamChoice, runStart, opened, preProcessing, prePartial,
                   finalExtractedDir, finalPartial, liveCurrentFragment, handlers,
                   isShuttingDown, statusJson,
                   ytdlProcess, chain,
                   restartTimers>>
    /\ ExFrame

\* The restart timer (5 s) fires: extractLiveAudioChunks is called again
\* with the same arguments.  It spawns a new segmenter, which numbers its
\* files from 0 again, and registers a new handler with a currentFragment
\* of its own.  The handler calls of the old run, which await one open and
\* one copy, have returned by then.
RestartExtraction ==
    /\ ffmpegProcess = "killed"
    /\ handlers = <<>>
    /\ ffmpegProcess' = "running"
    /\ runStart' = IF liveStreamChoice = "beginning" THEN 0 ELSE runStart + opened
    /\ opened' = 0
    /\ liveCurrentFragment' = 0
    /\ UNCHANGED <<liveStreamChoice, preProcessing, prePartial, finalExtractedDir,
                   finalPartial, handlers, restarts,
                   isShuttingDown, statusJson,
                   ytdlProcess, chain,
                   restartTimers>>
    /\ ExFrame

\* The stream ends: yt-dlp exits with code 0, the segmenter finishes the
\* file it has open and exits; nothing is restarted.
StreamEnds ==
    /\ ffmpegProcess = "running"
    /\ opened > 0
    /\ ffmpegProcess' = "ended"
    /\ prePartial' = prePartial \ {opened - 1}
    /\ UNCHANGED <<liveStreamChoice, runStart, opened, preProcessing,
                   finalExtractedDir, finalPartial, liveCurrentFragment, handlers,
                   restarts,
                   isShuttingDown, statusJson,
                   ytdlProcess, chain,
                   restartTimers>>
    /\ ExFrame


\* stop() of the object the first call of extractLiveAudioChunks resolved
\* with: it sets the isShuttingDown of that call and kills the two processes
\* of that call.  A restart calls extractLiveAudioChunks anew, with an
\* isShuttingDown and processes of its own, and drops the object it
\* resolves with; the timer callback of a restart tests no flag.
stop ==
    /\ ~isShuttingDown
    /\ isShuttingDown' = TRUE
    /\ ffmpegProcess' = IF restarts = 0 /\ ffmpegProcess = "running"
                          THEN "stopped"
                          ELSE ffmpegProcess
    /\ UNCHANGED <<liveStreamChoice, runStart, opened, preProcessing, prePartial,
                   finalExtractedDir, finalPartial, liveCurrentFragment, handlers,
                   restarts, statusJson,
                   ytdlProcess, chain,
                   restartTimers>>
    /\ ExFrame
\* extraction is quiescent: the stream has ended and no handler call is pending
ExtractionQuiescent == ffmpegProcess = "ended" /\ handlers = <<>>

ExtractionNext ==
    \/ Opening
    \/ \E h \in 1..MaxInFlight : IsFileLockedReturns(h)
    \/ \E h \in 1..MaxInFlight : moveToFinalExtracted(h)
    \/ PipelineFails
    \/ RestartExtraction
    \/ StreamEnds
    \/ stop

(***************************************************************************)
(* Non-live extraction: extractNormalAudio.                                *)
(*                                                                         *)
(* The pipeline and the stderr handler are those of the live extraction    *)
(* (Opening and IsFileLockedReturns model both), except that the handler   *)
(* writes a 'processing' status to status.json after the copy and before   *)
(* it increments currentFragment, and that the 'close' handlers of the two *)
(* processes write the terminal status.  Nothing is restarted.             *)
(***************************************************************************)
\* await moveToFinalExtracted returns in handler h: the handler goes on to
\* write the progress status
moveToFinalExtractedNormal(h) ==
    /\ h \in 1..Len(handlers)
    /\ handlers[h].stage = "moveToFinalExtracted"
    /\ LET k == handlers[h].previousFragment IN
         /\ finalExtractedDir' = [finalExtractedDir EXCEPT ![k] = preProcessing[k]]
         /\ finalPartial' = IF k \in prePartial THEN finalPartial \cup {k}
                                                ELSE finalPartial \ {k}
    /\ handlers' = [handlers EXCEPT ![h].stage = "writeFile"]
    /\ UNCHANGED <<ffmpegProcess, opened, preProcessing, prePartial,
                   liveCurrentFragment, statusJson, ytdlProcess>>
    /\ UNCHANGED <<liveStreamChoice, runStart, restarts, isShuttingDown, chain,
                   restartTimers>>
    /\ ExFrame

\* await fs.writeFile(statusPath, progressStatus) returns in handler h:
\* status 'processing', progress Math.min(95, currentFragment / 20 * 100)
\* (its integer part), with the currentFragment of the time of the write;
\* then currentFragment++
writeProgressStatus(h) ==
    /\ h \in 1..Len(handlers)
    /\ handlers[h].stage = "writeFile"
    /\ statusJson' = [status |-> "processing",
                      progress |-> IF (liveCurrentFragment * 100) \div 20 < 95
                                     THEN (liveCurrentFragment * 100) \div 20
                                     ELSE 95]
    /\ handlers' = RemoveAt(handlers, h)
    /\ liveCurrentFragment' = liveCurrentFragment + 1
    /\ UNCHANGED <<ffmpegProcess, opened, preProcessing, prePartial,
                   finalExtractedDir, finalPartial, ytdlProcess>>
    /\ UNCHANGED <<liveStreamChoice, runStart, restarts, isShuttingDown, chain,
                   restartTimers>>
    /\ ExFrame

\* ytdlProcess.on('close'): a code other than 0 writes the 'error' status
ytdlProcessCloses ==
    /\ ytdlProcess = "running"
    /\ \/ /\ ytdlProcess' = "closed"
          /\ UNCHANGED statusJson
       \/ /\ ytdlProcess' = "failed"
          /\ statusJson' = [status |-> "error", progress |-> 0]
    /\ UNCHANGED <<ffmpegProcess, opened, preProcessing, prePartial,
                   finalExtractedDir, finalPartial, liveCurrentFragment, handlers>>
    /\ UNCHANGED <<liveStreamChoice, runStart, restarts, isShuttingDown, chain,
                   restartTimers>>
    /\ ExFrame

\* ffmpegProcess.on('close'): code 0 writes 'completed' with progress 100,
\* another code writes 'error'.  The segmenter has finished the file it had
\* open when it exits with code 0.
ffmpegProcessCloses ==
    /\ ffmpegProcess = "running"
    /\ \/ /\ ffmpegProcess' = "ended"
          /\ prePartial' = prePartial \ {opened - 1}
          /\ statusJson' = [status |-> "completed", progress |-> 100]
       \/ /\ ffmpegProcess' = "killed"
          /\ UNCHANGED prePartial
          /\ statusJson' = [status |-> "error", progress |-> 0]
    /\ UNCHANGED <<opened, preProcessing, finalExtractedDir, finalPartial,
                   liveCurrentFragment, handlers, ytdlProcess>>
    /\ UNCHANGED <<liveStreamChoice, runStart, restarts, isShuttingDown, chain,
                   restartTimers>>
    /\ ExFrame

(***************************************************************************)
(* The restarts of extractLiveAudioChunks, process by process.             *)
(*                                                                         *)
(* Every call spawns a yt-dlp process and registers an 'error' and a       *)
(* 'close' handler on it.  Node emits 'error' when the process could not   *)
(* be spawned (followed by 'close' with a negative code) or could not be   *)
(* killed (the process goes on running), and 'close' when the process has  *)
(* ended and its streams are closed.  No call but the first has its        *)
(* isShuttingDown set, and the first only by stop(), which is left out     *)
(* here.                                                                   *)
(***************************************************************************)
\* process.on('error'): clearInterval, and since isShuttingDown is false the
\* restart is scheduled
processOnError(i) ==
    /\ i \in 1..Len(chain)
    /\ chain[i].process = "running"
    /\ ~chain[i].errored
    /\ chain' = [chain EXCEPT ![i].errored = TRUE]
    /\ restartTimers' = restartTimers + 1
    /\ UNCHANGED <<liveStreamChoice, ffmpegProcess, runStart, opened,
                   preProcessing, prePartial, finalExtractedDir, finalPartial,
                   liveCurrentFragment, handlers, restarts, isShuttingDown,
                   statusJson, ytdlProcess>>
    /\ ExFrame

\* process.on('close', code): clearInterval, and when code !== 0 (an error
\* exit, a failed spawn, or null after the kill of the progress check) the
\* restart is scheduled
processOnClose(i) ==
    /\ i \in 1..Len(chain)
    /\ chain[i].process = "running"
    /\ chain' = [chain EXCEPT ![i].process = "closed"]
    /\ \E code \in {0, 1} :
          restartTimers' = IF code # 0 THEN restartTimers + 1 ELSE restartTimers
    /\ UNCHANGED <<liveStreamChoice, ffmpegProcess, runStart, opened,
                   preProcessing, prePartial, finalExtractedDir, finalPartial,
                   liveCurrentFragment, handlers, restarts, isShuttingDown,
                   statusJson, ytdlProcess>>
    /\ ExFrame

\* a restart timer fires: extractLiveAudioChunks is called again and spawns
\* its processes
restartTimerFires ==
    /\ restartTimers > 0
    /\ Len(chain) < MaxPipelines
    /\ restartTimers' = restartTimers - 1
    /\ chain' = Append(chain, [process |-> "running", errored |-> FALSE])
    /\ UNCHANGED <<liveStreamChoice, ffmpegProcess, runStart, opened,
                   preProcessing, prePartial, finalExtractedDir, finalPartial,
                   liveCurrentFragment, handlers, restarts, isShuttingDown,
                   statusJson, ytdlProcess>>
    /\ ExFrame

(***************************************************************************)
(* Directory scanners and HTTP endpoints.                                  *)
(*                                                                         *)
(* A file name is a record of its parts: the stem before the digits, the   *)
(* decimal digits (empty when the name has none) and the extension.  The   *)
(* names of the model have no digit in the stem, so the first digit run of *)
(* a name (/\d+/) and the run before the extension (/fragment-(\d+)\.ext$/)*)
(* are both the digits part.                                               *)
(***************************************************************************)
RECURSIVE DecimalDigits(_)
\* the decimal digits of n, as the template fragment-%d writes them
DecimalDigits(n) ==
    IF n < 10 THEN <<n>> ELSE Append(DecimalDigits(n \div 10), n % 10)

RECURSIVE ParseInt(_)
\* parseInt(d, 10) of a non-empty digit string
ParseInt(d) ==
    IF Len(d) = 1 THEN d[1]
    ELSE 10 * ParseInt(SubSeq(d, 1, Len(d) - 1)) + d[Len(d)]

FragmentFile(n, ext) == [stem |-> "fragment-", digits |-> DecimalDigits(n), ext |-> ext]

\* the WebSocket connections made to the server
Sockets == 1..MaxSockets

\* no call of saveAudioFile is modelled
NoSave == [audioDataURI |-> "missing", length |-> 0, file |-> -1, result |-> "none"]

\* The directories of temp_files/<videoId>, one name per stage:
\* ExtractedAudio stands for ExtractedAudio/FinalExtracted and PreProcessing,
\* FinalTranslatedText and FinalTranslatedAudio for their language
\* directories as well.  A file exists only in a directory that exists.
StageDirs == {"ExtractedAudio", "ExtractedText", "FinalTranslatedText",
              "FinalTranslatedAudio"}

\* the file names a scanned directory may hold
ScanNames ==
    {FragmentFile(n, e) : n \in {0, 10}, e \in {".wav", ".json", ".tmp"}}
    \cup {[stem |-> "notes", digits |-> <<>>, ext |-> e] : e \in {".wav", ".json"}}

\* the files of a language directory of FinalTranslatedAudio
ListNames ==
    {FragmentFile(n, ".mp3") : n \in {1, 2, 9, 10}} \cup {FragmentFile(2, ".wav")}

\* file.endsWith(ext)
endsWith(file, ext) == file.ext = ext

NoRequest == [kind |-> "none"]
NoResponse == [status |-> 0, files |-> <<>>, contentRange |-> <<>>,
               contentLength |-> 0, body |-> {}]

IoIdle ==
    /\ scanExt = ".wav"
    /\ dirEntries = {}
    /\ handed = {}
    /\ request = NoRequest
    /\ response = NoResponse
    /\ clients = {}
    /\ readyState = [ws \in Sockets |-> "none"]
    /\ received = [ws \in Sockets |-> <<>>]
    /\ broadcasts = <<>>
    /\ dirs = StageDirs
    /\ saveCall = NoSave

IoFrame == UNCHANGED <<syncVars, startVars, trVars, extractedText, tlVars, exVars>>

\* ---- the scanners of setupTranscriptionWatcher / setupTranslationWatcher ----
\* a file is written into the scanned directory
FileAppears(f) ==
    /\ f \notin dirEntries
    /\ Cardinality(dirEntries) < MaxEntries
    /\ dirEntries' = dirEntries \cup {f}
    /\ UNCHANGED <<saveCall, dirs, scanExt, handed, request, response,
                   clients, readyState, received, broadcasts>>
    /\ IoFrame

\* readdir, filter by extension, sort, and the loop that hands every file of
\* the list to the processor
ScanDirectory ==
    /\ handed' = handed \cup {f \in dirEntries : endsWith(f, scanExt)}
    /\ UNCHANGED <<saveCall, dirs, scanExt, dirEntries, request, response,
                   clients, readyState, received, broadcasts>>
    /\ IoFrame

\* watcher.on('change'): the file named by the event is handed to the
\* processor when the name ends with the extension
WatchEvent(filename) ==
    /\ filename \in dirEntries
    /\ endsWith(filename, scanExt)
    /\ handed' = handed \cup {filename}
    /\ UNCHANGED <<saveCall, dirs, scanExt, dirEntries, request, response,
                   clients, readyState, received, broadcasts>>
    /\ IoFrame

ScanNext ==
    \/ \E f \in ScanNames : FileAppears(f)
    \/ ScanDirectory
    \/ \E f \in ScanNames : WatchEvent(f)

\* ---- GET /api/audio/:videoId/:language/fragments ----
\* the order of Array.prototype.sort() without a comparator: by the
\* characters of the name ('.' sorts before every digit)
compareLexicographic(a, b) ==
    LET x == a.digits
        y == b.digits
        less == \E i \in 1..Len(y) :
                   /\ \A j \in 1..(i - 1) : j <= Len(x) /\ x[j] = y[j]
                   /\ (i > Len(x) \/ x[i] < y[i])
    IN  IF less THEN -1 ELSE IF x = y THEN 0 ELSE 1

\* the comparator of the endpoint: numA - numB, with
\* num = parseInt(name.match(/\d+/)?.[0] || '0')
compare(a, b) ==
    LET num(f) == IF f.digits = <<>> THEN 0 ELSE ParseInt(f.digits)
    IN  num(a) - num(b)

RECURSIVE sort(_)
\* Array.prototype.sort(compare): a stable insertion of each element
sort(s) ==
    IF Len(s) <= 1 THEN s
    ELSE LET t == sort(SubSeq(s, 1, Len(s) - 1))
             x == s[Len(s)]
             k == Cardinality({i \in 1..Len(t) : compare(t[i], x) <= 0})
         IN  SubSeq(t, 1, k) \o <<x>> \o SubSeq(t, k + 1, Len(t))

ListFragments ==
    /\ request.kind = "fragments"
    /\ response = NoResponse
    /\ response' = [NoResponse EXCEPT
          !.status = 200,
          !.files = sort(SelectSeq(request.allFiles,
                                   LAMBDA file : endsWith(file, ".mp3")))]
    /\ UNCHANGED <<saveCall, dirs, scanExt, dirEntries, handed, request,
                   clients, readyState, received, broadcasts>>
    /\ IoFrame

\* ---- GET /api/audio/:videoId/:language/:filename ----
\* request.exists and request.size say what fs.access and stat find at the
\* path; request.range is <<>> when there is no Range header, and for "bytes=x-y"
\* the pair of digit strings <<x, y>> that replace(/bytes=/, "").split("-")
\* gives, y empty when the header ends with the dash.  The body is the set
\* of byte positions of the file that are streamed.
ServeAudio ==
    /\ request.kind = "audio"
    /\ response = NoResponse
    /\ LET size == request.size
           parts == request.range
       IN  IF ~request.exists \/ size = 0
             \* fs.access fails, or stats.size === 0
             THEN response' = [NoResponse EXCEPT !.status = 404]
           ELSE IF parts = <<>>
             THEN response' = [NoResponse EXCEPT
                     !.status = 200,
                     !.contentLength = size,
                     !.body = 0..(size - 1)]
             ELSE LET start == ParseInt(parts[1])
                      end == IF parts[2] # <<>> THEN ParseInt(parts[2])
                                                ELSE size - 1
                      chunksize == (end - start) + 1
                  IN  IF start > end
                        \* createReadStream throws ERR_OUT_OF_RANGE; the
                        \* catch answers 500, no header has been sent
                        THEN response' = [NoResponse EXCEPT !.status = 500]
                        ELSE response' = [NoResponse EXCEPT
                                !.status = 206,
                                !.contentRange = <<start, end, size>>,
                                !.contentLength = chunksize,
                                !.body = {i \in start..end : i < size}]
    /\ UNCHANGED <<saveCall, dirs, scanExt, dirEntries, handed, request,
                   clients, readyState, received, broadcasts>>
    /\ IoFrame

EndpointNext ==
    \/ ListFragments
    \/ ServeAudio

\* ---- WebSocket listeners and broadcastNewFragment ----
\* wss.on('connection'): the socket is open and is added to clients
Connection(ws) ==
    /\ readyState[ws] = "none"
    /\ readyState' = [readyState EXCEPT ![ws] = "OPEN"]
    /\ clients' = clients \cup {ws}
    /\ UNCHANGED <<saveCall, dirs, scanExt, dirEntries, handed, request, response, received,
                   broadcasts>>
    /\ IoFrame

\* The closing handshake of a socket starts (readyState CLOSING), or the
\* socket is closed: readyState becomes CLOSED and the 'close' event, which
\* is emitted with it, runs clients.delete(ws).
SocketCloses(ws) ==
    /\ \/ /\ readyState[ws] = "OPEN"
          /\ readyState' = [readyState EXCEPT ![ws] = "CLOSING"]
          /\ UNCHANGED clients
       \/ /\ readyState[ws] \in {"OPEN", "CLOSING"}
          /\ readyState' = [readyState EXCEPT ![ws] = "CLOSED"]
          /\ clients' = clients \ {ws}
    /\ UNCHANGED <<saveCall, dirs, scanExt, dirEntries, handed, request, response, received,
                   broadcasts>>
    /\ IoFrame

\* a broadcast that sends to every socket of clients, whatever its state
broadcastToAll(message) ==
    /\ Len(broadcasts) < MaxBroadcasts
    /\ broadcasts' = Append(broadcasts, message)
    /\ received' = [ws \in Sockets |->
                      IF ws \in clients THEN Append(received[ws], message)
                                        ELSE received[ws]]
    /\ UNCHANGED <<saveCall, dirs, scanExt, dirEntries, handed, request, response, clients,
                   readyState>>
    /\ IoFrame

\* broadcastNewFragment(videoId, language, fragmentNumber); the message is
\* the pair <<language, fragmentNumber>>
broadcastNewFragment(message) ==
    /\ Len(broadcasts) < MaxBroadcasts
    /\ broadcasts' = Append(broadcasts, message)
    /\ received' = [ws \in Sockets |->
                      IF ws \in clients /\ readyState[ws] = "OPEN"
                        THEN Append(received[ws], message)
                        ELSE received[ws]]
    /\ UNCHANGED <<saveCall, dirs, scanExt, dirEntries, handed, request, response, clients,
                   readyState>>
    /\ IoFrame

BroadcastNext ==
    \/ \E ws \in Sockets : Connection(ws)
    \/ \E ws \in Sockets : SocketCloses(ws)
    \/ \E l \in LangIdx : broadcastNewFragment(<<l, 0>>)

\* ---- saveAudioFile(audioDataURI, outputPath) ----
\* The argument is "missing" (null, undefined or ''), "malformed" (no
\* comma: split(',')[1] is undefined and Buffer.from throws) or "data"
\* (it decodes to a buffer of saveCall.length bytes).

\* the lengths of the decoded buffer, around the 100 byte limit
Lengths == {0} \cup ((MinAudioBytes - MaxDelta)..(MinAudioBytes + MaxDelta))

\* a saveAudioFile that does not stat the file after writing it
saveAudioFileUnverified ==
    /\ saveCall.result = "none"
    /\ IF saveCall.audioDataURI # "data" \/ saveCall.length < MinAudioBytes
         THEN saveCall' = [saveCall EXCEPT !.result = "false"]
         ELSE \E size \in Lengths \cup {-1} :
                 saveCall' = [saveCall EXCEPT !.file = size, !.result = "true"]
    /\ UNCHANGED <<scanExt, dirEntries, handed, request, response, clients,
                   readyState, received, broadcasts, dirs>>
    /\ IoFrame

\* The whole call.  A missing argument returns false at once; a malformed
\* one, or a buffer below 100 bytes, throws inside the try before
\* fs.writeFile and the catch returns false.  fs.writeFile may reject and
\* leave the file as it was or cut short; between the write and fs.stat
\* another writer of the same path (a duplicate coordinator) may replace the
\* file, and fs.stat may reject.  The call returns true when the size fs.stat
\* reports is the length of the buffer; every error is caught.
saveAudioFile ==
    /\ saveCall.result = "none"
    /\ IF saveCall.audioDataURI # "data" \/ saveCall.length < MinAudioBytes
         THEN saveCall' = [saveCall EXCEPT !.result = "false"]
         ELSE \E size \in Lengths \cup {-1} :
                 saveCall' = [saveCall EXCEPT
                     !.file = size,
                     !.result = IF size = saveCall.length THEN "true"
                                                              ELSE "false"]
    /\ UNCHANGED <<scanExt, dirEntries, handed, request, response, clients,
                   readyState, received, broadcasts, dirs>>
    /\ IoFrame

\* ---- Status Reporters ----
\* Every readdir of a status function carries .catch(() => []) (or, in
\* getAudioStatus, a try/catch that sets filesCount 0), so a missing
\* directory counts as an empty one.  The quotient done / reference * 100
\* is kept as its integer part.

\* a transcription status that never reports more than 100
getTranscriptionStatusClamped ==
    LET audioFiles == Cardinality(finalExtracted)
        transcriptionFiles == Cardinality(extractedText)
    IN  [totalAudioFiles |-> audioFiles,
         transcribedFiles |-> transcriptionFiles,
         progress |-> IF transcriptionFiles >= audioFiles /\ audioFiles # 0
                        THEN 100
                        ELSE IF audioFiles # 0
                               THEN (transcriptionFiles * 100) \div audioFiles
                               ELSE 0]

getTranscriptionStatus ==
    LET audioFiles == Cardinality(finalExtracted)
        transcriptionFiles == Cardinality(extractedText)
    IN  [totalAudioFiles |-> audioFiles,
         transcribedFiles |-> transcriptionFiles,
         progress |-> IF audioFiles # 0
                        THEN (transcriptionFiles * 100) \div audioFiles
                        ELSE 0]

\* the counts of languageStatus are those of the synthesis languages
getTranslationStatus ==
    LET transcriptionFiles == Cardinality(extractedText)
        translatedFiles == Cardinality(englishFiles)
        langFiles(l) == Cardinality({n \in Fragments : <<l, n>> \in translationFiles})
    IN  [totalTranscriptions |-> transcriptionFiles,
         translatedFiles |-> translatedFiles,
         overallProgress |-> IF transcriptionFiles # 0
                               THEN (translatedFiles * 100) \div transcriptionFiles
                               ELSE 0,
         languageStatus |-> [l \in LangIdx |->
            [filesCount |-> langFiles(l),
             progress |-> IF transcriptionFiles # 0
                            THEN (langFiles(l) * 100) \div transcriptionFiles
                            ELSE 0]]]

\* an audio status that counts the WAV files of a language
getAudioStatusOfWav ==
    LET translationFilesCount == Cardinality({n \in Fragments : <<1, n>> \in translationFiles})
        wavCount(l) == Cardinality({n \in Fragments : <<l, n>> \in wavFiles})
    IN  [totalTranslations |-> translationFilesCount,
         processedAudioFiles |-> wavCount(1),
         overallProgress |-> IF translationFilesCount # 0
                               THEN (wavCount(1) * 100) \div translationFilesCount
                               ELSE 0,
         languageStatus |-> [l \in LangIdx |->
            [filesCount |-> wavCount(l),
             progress |-> IF translationFilesCount # 0
                            THEN (wavCount(l) * 100) \div translationFilesCount
                            ELSE 0]]]

\* translationFiles are the .json files of FinalTranslatedText/Hindi; the
\* overall figures are those of the first language, Hindi
getAudioStatus ==
    LET translationFilesCount == Cardinality({n \in Fragments : <<1, n>> \in translationFiles})
        mp3Count(l) == Cardinality({n \in Fragments : mp3Files[<<l, n>>] > 0})
    IN  [totalTranslations |-> translationFilesCount,
         processedAudioFiles |-> mp3Count(1),
         overallProgress |-> IF translationFilesCount # 0
                               THEN (mp3Count(1) * 100) \div translationFilesCount
                               ELSE 0,
         languageStatus |-> [l \in LangIdx |->
            [filesCount |-> mp3Count(l),
             progress |-> IF translationFilesCount # 0
                            THEN (mp3Count(l) * 100) \div translationFilesCount
                            ELSE 0]]]

\* an extraction status that takes a missing directory for an empty one
getExtractionStatusOfListing ==
    [status |-> IF finalExtracted # {} THEN "in_progress" ELSE "starting",
     chunkCount |-> Cardinality(finalExtracted)]

\* GET /api/extraction-status: fs.access of the two directories fails when
\* they are missing; otherwise the .wav files of FinalExtracted are listed
\* (the status file, which live extraction does not write, is left out)
getExtractionStatus ==
    IF "ExtractedAudio" \notin dirs
      THEN [status |-> "not_started", chunkCount |-> 0]
      ELSE [status |-> IF finalExtracted # {} THEN "in_progress" ELSE "starting",
            chunkCount |-> Cardinality(finalExtracted)]

StatusKinds == {"transcription-status", "translation-status", "audio-status",
                "extraction-status"}

\* The handlers of the four status endpoints.  The audio-status handler
\* calls ensureAudioDirectories(videoId) before getAudioStatus: it creates
\* FinalTranslatedAudio and its language directories when they are missing.
StatusRequest(kind) ==
    /\ request = [kind |-> kind]
    /\ response = NoResponse
    /\ response' = [NoResponse EXCEPT
          !.status = 200,
          !.body = CASE kind = "transcription-status" -> getTranscriptionStatus
                     [] kind = "translation-status" -> getTranslationStatus
                     [] kind = "audio-status" -> getAudioStatus
                     [] kind = "extraction-status" -> getExtractionStatus]
    /\ dirs' = IF kind = "audio-status" THEN dirs \cup {"FinalTranslatedAudio"}
                                        ELSE dirs
    /\ UNCHANGED <<scanExt, dirEntries, handed, request, clients, readyState,
                   received, broadcasts, saveCall>>
    /\ IoFrame

StatusNext == \E kind \in StatusKinds : StatusRequest(kind)

(***************************************************************************)
(* Specifications                                                          *)
(***************************************************************************)
\* nothing of the synthesis side exists and no coordinator runs
SyncIdle ==
    /\ CoordinatorsIdle
    /\ mp3Files = [p \in Pairs |-> 0]
    /\ partialMp3 = {}
    /\ wavFiles = {}
    /\ translationFiles = {}

TranscriptionIdle == TranscriptionStartsOn(0, 0)

TranslationIdle ==
    /\ englishFiles = {}
    /\ existingTranslations = {}
    /\ tlPhase = "setup"
    /\ sortedFiles = <<>>
    /\ tlCall = [c \in Calls |-> NoCall]

\* Spec: one coordinator on the store of its videoId
Init ==
    /\ SyncInit /\ StartIdle /\ TranscriptionIdle /\ TranslationIdle
    /\ ExtractionIdle /\ IoIdle

Next ==
    \/ CoordinatorStep("coordinator", FALSE)
    \/ TranslationStage

Spec == Init /\ [][Next]_vars

\* FairSpec: the event loop runs every continuation that is ready (weak
\* fairness of the coordinator's step), and external operations fail at
\* most MaxFaults times in all.
FairNext ==
    \/ CoordinatorStep("coordinator", TRUE)
    \/ TranslationStage

FairSpec ==
    /\ Init
    /\ [][FairNext]_vars
    /\ WF_vars(CoordinatorStep("coordinator", TRUE))

\* RaceSpec: the coordinator and a duplicate run on the same store, started
\* on an empty store; the translation stage produces RaceFragments indices.
RaceInit ==
    /\ SyncIdle /\ StartIdle /\ TranscriptionIdle /\ TranslationIdle
    /\ ExtractionIdle /\ IoIdle

RaceNext ==
    \/ \E m \in Coordinators : CoordinatorStep(m, FALSE)
    \/ \E l \in LangIdx, n \in 0..(RaceFragments - 1) :
          n \in Fragments /\ TranslationWritten(l, n) /\ SyncFrame

RaceSpec == RaceInit /\ [][RaceNext]_vars

\* RemovalSpec: the coordinator on a store that is not its own alone:
\* FinalTranslatedAudio is a directory of the file system, and an MP3 in it
\* may be removed from outside the backend while the coordinator runs.
Mp3Removed(l, n) ==
    /\ Mp3Exists(l, n)
    /\ mp3Files' = [mp3Files EXCEPT ![<<l, n>>] = 0]
    /\ partialMp3' = partialMp3 \ {<<l, n>>}
    /\ UNCHANGED <<translationFiles, wavFiles, pc, currentFragment, lang,
                   translations, retryI, chunksLeft, faults, OtherParts>>

RemovalNext ==
    \/ Next
    \/ \E l \in LangIdx, n \in Fragments : Mp3Removed(l, n)

RemovalSpec == Init /\ [][RemovalNext]_vars

\* CrashSpec: the backend process is killed at any await of the coordinator
\* and started again.  The locals of start() and processFragment are lost; a
\* new AudioSyncManager is constructed and started.  When the kill comes
\* while convertToMp3 is pending, ffmpeg (a child of the process) has opened
\* the MP3 under its final name and may have written any part of it: the
\* file is left untouched, or is left incomplete.
Crash(m) ==
    /\ pc[m] # "idle"
    /\ LET p == <<lang[m], currentFragment[m]>> IN
         IF pc[m] \in {"convertFound", "convertGenerated"} /\ p \in wavFiles
           THEN \/ UNCHANGED <<mp3Files, partialMp3>>
                \/ /\ mp3Files' = [mp3Files EXCEPT ![p] = Bump(@)]
                   /\ partialMp3' = partialMp3 \cup {p}
           ELSE UNCHANGED <<mp3Files, partialMp3>>
    /\ pc' = [pc EXCEPT ![m] = "idle"]
    /\ currentFragment' = [currentFragment EXCEPT ![m] = 0]
    /\ lang' = [lang EXCEPT ![m] = 1]
    /\ translations' = [translations EXCEPT ![m] = [l \in LangIdx |-> "ok"]]
    /\ retryI' = [retryI EXCEPT ![m] = 0]
    /\ chunksLeft' = [chunksLeft EXCEPT ![m] = 0]
    /\ UNCHANGED <<translationFiles, wavFiles, faults, OtherParts>>

CrashNext ==
    \/ Next
    \/ Crash("coordinator")

CrashSpec == Init /\ [][CrashNext]_vars

\* StartSpec: start requests for one videoId, in any order and interleaving
StartInit ==
    /\ SyncIdle /\ StartIdle /\ TranscriptionIdle /\ TranslationIdle
    /\ ExtractionIdle /\ IoIdle

StartSpec == StartInit /\ [][StartNext]_vars

\* TranscriptionSpec: the transcription stage beside the extraction stage
TranscriptionInit ==
    /\ SyncIdle /\ StartIdle /\ TranslationIdle /\ ExtractionIdle /\ IoIdle
    /\ \E i \in 0..MaxExtracted, j \in 0..MaxExtracted :
          j <= i /\ TranscriptionStartsOn(i, j)

TranscriptionSpec == TranscriptionInit /\ [][TranscriptionNext]_vars

\* TranslationSpec: the translation stage beside the transcription stage
TranslationInit ==
    /\ CoordinatorsIdle /\ wavFiles = {} /\ mp3Files = [p \in Pairs |-> 0]
    /\ partialMp3 = {}
    /\ StartIdle /\ ExtractionIdle /\ IoIdle
    /\ \E i \in 0..MaxFragments, j \in 0..MaxFragments :
          j <= i /\ TranslationStartsOn(i, j)
    /\ finalExtracted = {}
    /\ existingTranscriptions = {}
    /\ trPhase = "setup"
    /\ sortedAudioFiles = <<>>
    /\ trLoopFile = {}
    /\ trNotif = [k \in Notifications |-> [file |-> 0, stage |-> "none"]]
    /\ trStarted = {}
    /\ trFailed = {}

TranslationSpec == TranslationInit /\ [][TranslationNext]_vars

\* ExtractionSpec: the live extraction pipeline of one video
ExtractionInit ==
    /\ SyncIdle /\ StartIdle /\ TranscriptionIdle /\ TranslationIdle
    /\ ExtractionStarts /\ IoIdle

ExtractionSpec == ExtractionInit /\ [][ExtractionNext]_vars

\* ScanSpec: one scanner beside the stage that writes its directory
ScanInit ==
    /\ SyncIdle /\ StartIdle /\ TranscriptionIdle /\ TranslationIdle
    /\ ExtractionIdle
    /\ scanExt \in {".wav", ".json"}
    /\ dirEntries = {}
    /\ handed = {}
    /\ request = NoRequest
    /\ response = NoResponse
    /\ clients = {}
    /\ readyState = [ws \in Sockets |-> "none"]
    /\ received = [ws \in Sockets |-> <<>>]
    /\ broadcasts = <<>>
    /\ dirs = StageDirs
    /\ saveCall = NoSave

ScanSpec == ScanInit /\ [][ScanNext]_vars

\* EndpointSpec: one request to one of the two audio endpoints, for every
\* listing readdir may return and every file size and Range header
EndpointInit ==
    /\ SyncIdle /\ StartIdle /\ TranscriptionIdle /\ TranslationIdle
    /\ ExtractionIdle
    /\ scanExt = ".wav"
    /\ dirEntries = {}
    /\ handed = {}
    /\ response = NoResponse
    /\ clients = {}
    /\ readyState = [ws \in Sockets |-> "none"]
    /\ received = [ws \in Sockets |-> <<>>]
    /\ broadcasts = <<>>
    /\ dirs = StageDirs
    /\ saveCall = NoSave
    /\ \/ \E len \in 0..MaxListed : \E s \in [1..len -> ListNames] :
             /\ \A i \in 1..len, j \in 1..len : i # j => s[i] # s[j]
             /\ request = [kind |-> "fragments", allFiles |-> s]
       \/ \E size \in 0..MaxSize, exists \in BOOLEAN :
             /\ ~exists => size = 0
             /\ \/ request = [kind |-> "audio", exists |-> exists, size |-> size,
                              range |-> <<>>]
                \/ \E a \in 0..MaxOffset :
                     \/ request = [kind |-> "audio", exists |-> exists,
                                   size |-> size,
                                   range |-> <<DecimalDigits(a), <<>>>>]
                     \/ \E b \in 0..MaxOffset :
                           request = [kind |-> "audio", exists |-> exists,
                                      size |-> size,
                                      range |-> <<DecimalDigits(a), DecimalDigits(b)>>]

EndpointSpec == EndpointInit /\ [][EndpointNext]_vars

\* BroadcastSpec: listeners connect and close while broadcastNewFragment is
\* called
BroadcastInit ==
    /\ SyncIdle /\ StartIdle /\ TranscriptionIdle /\ TranslationIdle
    /\ ExtractionIdle /\ IoIdle

BroadcastSpec == BroadcastInit /\ [][BroadcastNext]_vars

\* StatusSpec: one status request on a store that holds any number of
\* outputs of each stage and any of the stage directories
StatusInit ==
    /\ CoordinatorsIdle /\ StartIdle /\ ExtractionIdle
    /\ \E a \in 0..MaxExtracted, t \in 0..MaxExtracted, e \in 0..MaxFragments,
          m \in 0..MaxFragments :
          /\ TranscriptionStartsOn(a, t)
          /\ TranslationStartsOn(t, e)
          /\ mp3Files = [p \in Pairs |-> IF p[2] < m THEN 1 ELSE 0]
          /\ dirs \in SUBSET StageDirs
          /\ saveCall = NoSave
          /\ a > 0 => "ExtractedAudio" \in dirs
          /\ t > 0 => "ExtractedText" \in dirs
          /\ e > 0 => "FinalTranslatedText" \in dirs
          /\ m > 0 => "FinalTranslatedAudio" \in dirs
    /\ partialMp3 = {}
    /\ wavFiles = {}
    /\ scanExt = ".wav"
    /\ dirEntries = {}
    /\ handed = {}
    /\ \E kind \in StatusKinds : request = [kind |-> kind]
    /\ response = NoResponse
    /\ clients = {}
    /\ readyState = [ws \in Sockets |-> "none"]
    /\ received = [ws \in Sockets |-> <<>>]
    /\ broadcasts = <<>>

StatusSpec == StatusInit /\ [][StatusNext]_vars

\* NormalSpec: the non-live extraction of one source, from the 'starting'
\* status on
NormalInit ==
    /\ SyncIdle /\ StartIdle /\ TranscriptionIdle /\ TranslationIdle
    /\ ExtractionIdle /\ IoIdle

NormalSpec ==
    /\ NormalInit
    /\ [][\/ Opening
          \/ \E h \in 1..MaxInFlight : IsFileLockedReturns(h)
          \/ \E h \in 1..MaxInFlight : moveToFinalExtractedNormal(h)
          \/ \E h \in 1..MaxInFlight : writeProgressStatus(h)
          \/ ytdlProcessCloses
          \/ ffmpegProcessCloses]_vars

\* RestartSpec: the calls of extractLiveAudioChunks for one source, from
\* the first call on (with either liveStreamChoice), with the events their
\* yt-dlp processes emit
RestartSpec ==
    /\ ExtractionInit
    /\ [][\/ \E i \in 1..MaxPipelines : processOnError(i)
          \/ \E i \in 1..MaxPipelines : processOnClose(i)
          \/ restartTimerFires]_vars

\* SaveSpec: one call of saveAudioFile, for any argument and any file at
\* outputPath
SaveInit ==
    /\ SyncIdle /\ StartIdle /\ TranscriptionIdle /\ TranslationIdle
    /\ ExtractionIdle
    /\ scanExt = ".wav"
    /\ dirEntries = {}
    /\ handed = {}
    /\ request = NoRequest
    /\ response = NoResponse
    /\ clients = {}
    /\ readyState = [ws \in Sockets |-> "none"]
    /\ received = [ws \in Sockets |-> <<>>]
    /\ broadcasts = <<>>
    /\ dirs = StageDirs
    /\ \E uri \in {"missing", "malformed", "data"}, length \in Lengths,
          size \in Lengths \cup {-1} :
          /\ uri # "data" => length = 0
          /\ saveCall = [audioDataURI |-> uri, length |-> length, file |-> size,
                         result |-> "none"]

SaveSpec == SaveInit /\ [][saveAudioFile]_vars

\* CancelSpec: the coordinator beside the live extraction of its source,
\* which the caller may stop.  stop() is the one operation of the backend
\* that ends work on a source.  The event loop runs every continuation of
\* the coordinator that is ready; an external operation may fail any
\* number of times.
CancelSpec ==
    /\ Init
    /\ [][Next \/ stop]_vars
    /\ WF_vars(CoordinatorStep("coordinator", FALSE))

TypeOK ==
    /\ translationFiles \subseteq Pairs
    /\ wavFiles \subseteq Pairs
    /\ mp3Files \in [Pairs -> 0..MaxVersion]
    /\ partialMp3 \subseteq {p \in Pairs : mp3Files[p] > 0}
    /\ currentFragment \in [Coordinators -> 0..MaxFragments]
    /\ lang \in [Coordinators -> LangIdx]
    /\ retryI \in [Coordinators -> 0..(MAX_RETRIES - 1)]
    /\ chunksLeft \in [Coordinators -> 0..MaxChunks]
    /\ faults \in 0..MaxFaults
    /\ reqPc \in [Requests -> {"idle", "ensureAudioDirectories", "start",
                               "returned", "thrown"}]
    /\ activeAudioWatchers \in BOOLEAN
    /\ audioSyncManagers \in BOOLEAN
    /\ isProcessing \in [Requests -> BOOLEAN]
    /\ finalExtracted \subseteq AudioIdx
    /\ extractedText \subseteq AudioIdx
    /\ existingTranscriptions \subseteq AudioIdx
    /\ trLoopFile \subseteq AudioIdx
    /\ Cardinality(trLoopFile) <= 1
    /\ trStarted \subseteq AudioIdx
    /\ trFailed \subseteq trStarted
    /\ englishFiles \subseteq Fragments
    /\ existingTranslations \subseteq Fragments
    /\ \A c \in Calls : tlCall[c].next \in 0..NumLangs
    /\ opened \in 0..MaxSegments
    /\ liveCurrentFragment \in 0..MaxSegments
    /\ Len(handlers) <= MaxInFlight
    /\ \A h \in 1..Len(handlers) : handlers[h].previousFragment \in SegIdx
    /\ prePartial \subseteq {k \in SegIdx : preProcessing[k] # 0}
    /\ finalPartial \subseteq {k \in SegIdx : finalExtractedDir[k] # 0}
    /\ restarts \in 0..MaxRestarts
    /\ ffmpegProcess \in {"running", "killed", "ended", "stopped"}
    /\ isShuttingDown \in BOOLEAN
    /\ dirEntries \subseteq ScanNames
    /\ handed \subseteq dirEntries
    /\ response.status \in {0, 200, 206, 404, 500}
    /\ dirs \subseteq StageDirs
    /\ saveCall.result \in {"none", "true", "false"}
    /\ statusJson.status \in {"starting", "processing", "completed", "error"}
    /\ statusJson.progress \in 0..100
    /\ ytdlProcess \in {"running", "closed", "failed"}
    /\ Len(chain) \in 1..MaxPipelines
    /\ \A i \in 1..Len(chain) : chain[i].process \in {"running", "closed"}
    /\ restartTimers \in 0..(2 * MaxPipelines)
    /\ saveCall.file \in Lengths \cup {-1}
    /\ clients \subseteq Sockets
    /\ Len(broadcasts) <= MaxBroadcasts

(***************************************************************************)
(* Claims about the Sync Coordinator                                       *)
(***************************************************************************)
\* the position <<index, language>> a coordinator works at
Position(m) == <<pc[m], currentFragment[m], lang[m]>>

C2_NoAdvanceWithoutTranslations ==
    \A m \in Coordinators : \A n \in Fragments :
        (\E l \in LangIdx : ~TranslationExists(l, n)) =>
            /\ currentFragment[m] <= n
            /\ currentFragment[m] = n => pc[m] \in {"idle", "hasTranslations"}

\* a coordinator waits at index 1, whose translation one language has and
\* another lacks
C2_Witness ==
    \E m \in Coordinators :
        /\ currentFragment[m] = 1
        /\ pc[m] = "hasTranslations"
        /\ \E a, b \in LangIdx : TranslationExists(a, 1) /\ ~TranslationExists(b, 1)

\* C3: the current index of every coordinator starts at 0 and every step
\* leaves it unchanged or adds exactly one: no index is skipped, none is
\* revisited.
C3_IndexWalksInOrder ==
    /\ \A m \in Coordinators : currentFragment[m] = 0
    /\ [][\A m \in Coordinators :
             \/ currentFragment'[m] = currentFragment[m]
             \/ currentFragment'[m] = currentFragment[m] + 1]_vars

\* a coordinator has walked 0, 1 and is processing the last index
C3_Witness ==
    \E m \in Coordinators :
        /\ currentFragment[m] = MaxFragments - 1
        /\ currentFragment[m] > 0
        /\ pc[m] = "callApi"

\* C4: for any sequence and interleaving of start requests for one videoId
\* (startAudioWatcher, startAudioSyncManager, setupAudioWatcher), at most one
\* AudioSyncManager.start loop is running for that videoId at any time.
C4_AtMostOneLoop == Cardinality(RunningLoops) <= 1

\* C5: whatever change notifications the transcription watcher receives,
\* duplicates for one filename included, at most one transcribeAudioFragment
\* call is in flight for a fragment at any time.
C5_AtMostOneInFlight == \A n \in AudioIdx : InFlight(n) <= 1

\* C6: a step of processFragment that finds fragment-N.mp3 of its language
\* present goes straight on to the next language (or returns): it does not
\* enter generateAudio, and it leaves every audio file as it is.
C6_ExistingOutputSkipped ==
    [][\A m \in Coordinators :
          (/\ pc[m] = "accessMp3"
           /\ Mp3Exists(lang[m], currentFragment[m])
           /\ Position(m)' # Position(m))
          => /\ pc'[m] \in {"accessMp3", "hasTranslations"}
             /\ <<currentFragment'[m], lang'[m]>> # <<currentFragment[m], lang[m]>>
             /\ mp3Files' = mp3Files
             /\ wavFiles' = wavFiles]_vars

\* processFragment was called for an index whose outputs exist already: it
\* skipped the first language and is at the existence check of the second
C6_Witness ==
    \E m \in Coordinators :
        /\ pc[m] = "accessMp3"
        /\ lang[m] = 2
        /\ \A l \in LangIdx : mp3Files[<<l, currentFragment[m]>>] = 1

\* C7: once the synthesis call for (N, L) is being made, and external
\* operations fail only finitely often, fragment-N.mp3 of L eventually
\* exists: the processor retries and never gives the fragment up.
C7_RetryConverges ==
    \A m \in Coordinators : \A l \in LangIdx : \A n \in Fragments :
        (pc[m] = "callApi" /\ lang[m] = l /\ currentFragment[m] = n)
            ~> Mp3Exists(l, n)

\* every allowed failure has happened and the output was generated all the same
C7_Witness ==
    \E m \in Coordinators :
        /\ faults = 0
        /\ pc[m] = "unlinkGenerated"
        /\ Mp3Exists(lang[m], currentFragment[m])

(***************************************************************************)
(* Claims about the transcription and translation stages                   *)
(***************************************************************************)
\* a failed fragment nobody works on: a call for it failed, it has no
\* output, no call for it is in flight and no timer for it is pending
Abandoned(n) ==
    /\ n \in trFailed
    /\ n \notin extractedText
    /\ InFlight(n) = 0
    /\ ~TimerPending(n)

\* C8: the transcription stage never skips a fragment: a fragment whose
\* transcription failed is retried until its output exists, so no later
\* fragment has an output while a failed fragment lies abandoned without one.
C8_NeverSkips ==
    \A n, k \in AudioIdx : (n < k /\ Abandoned(n)) => k \notin extractedText

\* C9: the translation stage never records fragment N as already
\* translated while the file of a target language for N is missing.
C9_RecordedOnlyWhenComplete ==
    \A n \in existingTranslations : \A l \in LangIdx : TranslationExists(l, n)

\* C10: across the initial scan and the watcher notifications,
\* transcription of fragment N+1 never starts before transcription of
\* fragment N has started (or N was found transcribed by an earlier run).
C10_StartsInOrder ==
    \A n \in AudioIdx :
       (n + 1) \in trStarted => n \in trStarted \cup existingTranscriptions

(***************************************************************************)
(* Claims about the order, the verification and the files of synthesis     *)
(***************************************************************************)
\* C11: a coordinator works on one <<index, language>> pair at a time and
\* visits the pairs in order: it leaves a pair only for the next language of
\* the same index, or after the last language for the first language of the
\* next index, and only when the MP3 of the pair it leaves exists.
C11_LanguagesInSequence ==
    [][\A m \in Coordinators :
          LET n == currentFragment[m]
              l == lang[m]
          IN  <<currentFragment'[m], lang'[m]>> # <<n, l>> =>
                 /\ n \in Fragments
                 /\ mp3Files'[<<l, n>>] > 0
                 /\ <<currentFragment'[m], lang'[m]>> =
                       IF l < NumLangs THEN <<n, l + 1>> ELSE <<n + 1, 1>>]_vars

\* the second language of the second index is being synthesized: the first
\* language of that index has its MP3, the second has none yet
C11_Witness ==
    \E m \in Coordinators :
        /\ pc[m] = "callApi"
        /\ currentFragment[m] = 1
        /\ lang[m] = 2
        /\ Mp3Exists(1, 1)
        /\ ~Mp3Exists(2, 1)

\* C12: the coordinator declares an index complete (currentFragment++) only
\* on a check that finds the output of every language of that index in
\* place; when one is missing it processes the same index again.
C12_VerifiedBeforeAdvance ==
    [][\A m \in Coordinators :
          currentFragment'[m] = currentFragment[m] + 1 =>
             \A l \in LangIdx : Mp3Exists(l, currentFragment[m])]_vars

\* C13: an MP3 that exists under its final name is complete whenever the
\* coordinator takes it as the completion marker of its pair: no index is
\* declared complete while the MP3 of one of its languages is incomplete.
C13_NoPartialAccepted ==
    \A m \in Coordinators : \A p \in partialMp3 : currentFragment[m] <= p[2]

\* C14: completed fragments are immutable: once fragment-N.mp3 of a language
\* exists, no step overwrites or deletes it.
C14_Mp3Immutable ==
    [][\A p \in Pairs : mp3Files[p] > 0 => mp3Files'[p] = mp3Files[p]]_vars

(***************************************************************************)
(* C15 - index assignment of extracted fragments is stable                 *)
(***************************************************************************)
\* C15: once FinalExtracted/fragment-N.wav exists it always holds the same
\* segment of the source: no step replaces it by a different segment, also
\* not after the pipeline was killed or failed and was restarted.
C15_IndexStable ==
    [][\A k \in SegIdx : finalExtractedDir[k] # 0 =>
            finalExtractedDir'[k] = finalExtractedDir[k]]_vars

(***************************************************************************)
(* C16 - promotion leaves no permanent gaps                                *)
(***************************************************************************)
\* C16: once extraction is quiescent, no index is missing from
\* FinalExtracted while a higher index is present.
C16_NoPermanentGap ==
    ExtractionQuiescent =>
        \A n \in SegIdx, m \in SegIdx :
            n < m /\ finalExtractedDir[m] # 0 => finalExtractedDir[n] # 0

C18_OnlyFragmentsHanded ==
    \A f \in handed :
        f.stem = "fragment-" /\ f.digits # <<>> /\ f.ext = scanExt

(***************************************************************************)
(* C19 - the fragments list is in numeric order                            *)
(***************************************************************************)
\* C19: the files of the response are the .mp3 files of the directory, and
\* fragment-n.mp3 comes before fragment-m.mp3 only when n < m.
C19_NumericOrder ==
    request.kind = "fragments" /\ response.status # 0 =>
        LET files == response.files IN
          /\ response.status = 200
          /\ {files[i] : i \in 1..Len(files)} =
                {request.allFiles[i] : i \in 1..Len(request.allFiles)}
                  \cap {f \in ListNames : f.ext = ".mp3"}
          /\ \A i \in 1..Len(files), j \in 1..Len(files), n \in 0..10, m \in 0..10 :
                /\ i < j
                /\ files[i] = FragmentFile(n, ".mp3")
                /\ files[j] = FragmentFile(m, ".mp3")
                => n < m

\* readdir returned fragment-2, fragment-10, fragment-1 and the response
\* lists 1, 2, 10
C19_Witness ==
    /\ request.kind = "fragments"
    /\ request.allFiles = <<FragmentFile(2, ".mp3"), FragmentFile(10, ".mp3"),
                            FragmentFile(1, ".mp3")>>
    /\ response.files = <<FragmentFile(1, ".mp3"), FragmentFile(2, ".mp3"),
                          FragmentFile(10, ".mp3")>>

(***************************************************************************)
(* C20 - byte-range serving                                                *)
(***************************************************************************)
\* C20: a request with Range: bytes=a-b (b = size-1 when omitted) is
\* answered 206 with Content-Range a-b/size, Content-Length b-a+1 and the
\* bytes a..b; a request without Range is answered 200 with Content-Length
\* size and the whole file.
C20_RangeServed ==
    /\ request.kind = "audio" /\ response.status # 0
    /\ request.exists /\ request.size > 0
    =>
        /\ request.range = <<>> =>
              /\ response.status = 200
              /\ response.contentLength = request.size
              /\ response.body = 0..(request.size - 1)
        /\ \A a \in 0..MaxOffset, b \in 0..MaxOffset :
              \/ request.range = <<DecimalDigits(a), DecimalDigits(b)>>
              \/ /\ request.range = <<DecimalDigits(a), <<>>>>
                 /\ b = request.size - 1
              => /\ response.status = 206
                 /\ response.contentRange = <<a, b, request.size>>
                 /\ response.contentLength = b - a + 1
                 /\ response.body = a..b

(***************************************************************************)
(* C21 - the audio endpoint answers 404 or 200/206                         *)
(***************************************************************************)
\* C21: the audio endpoint answers 404 when the file is absent or has size
\* zero, and 200 or 206 otherwise.
C21_NotFoundOrServed ==
    request.kind = "audio" /\ response.status # 0 =>
        IF ~request.exists \/ request.size = 0
          THEN response.status = 404
          ELSE response.status \in {200, 206}

(***************************************************************************)
(* C22 - completed fragments are announced                                 *)
(***************************************************************************)
\* C22: when the coordinator has moved past index n, a newFragment message
\* has been broadcast for every language and n.
C22_CompletedAnnounced ==
    \A l \in LangIdx, n \in Fragments :
        n < currentFragment["coordinator"] =>
            \E i \in 1..Len(broadcasts) : broadcasts[i] = <<l, n>>

(***************************************************************************)
(* C23 - fan-out to the listeners open at the broadcast                    *)
(***************************************************************************)
\* C23: a broadcast appends its message once to every socket that is in
\* clients and open, and to no other; no other step sends anything; a
\* closed socket is not in clients.
C23_FanOut ==
    [][/\ \A ws \in Sockets :
            received'[ws] =
               IF /\ broadcasts' # broadcasts
                  /\ readyState[ws] = "OPEN"
                 THEN Append(received[ws], broadcasts'[Len(broadcasts')])
                 ELSE received[ws]
       /\ \A ws \in Sockets : readyState'[ws] = "CLOSED" => ws \notin clients'
      ]_vars

\* two broadcasts were made: socket 1 was open for the first only and is
\* closed, socket 2 connected after the first and received the second only
C23_Witness ==
    /\ Len(broadcasts) = 2
    /\ readyState[1] = "CLOSED" /\ received[1] = <<broadcasts[1]>>
    /\ readyState[2] = "OPEN" /\ received[2] = <<broadcasts[2]>>

\* C24: a status reporter answers with progress = done / reference * 100,
\* both counted in the store at the time of the request: transcripts over
\* extracted audio files, English translations over transcripts, Hindi MP3s
\* over Hindi translations.  A reference count of 0 gives progress 0 and a
\* value above 100 is returned unchanged.
C24_ProgressOfUpstream ==
    LET percent(done, reference) ==
            IF reference = 0 THEN 0 ELSE (done * 100) \div reference
        hindi(files) == Cardinality({n \in Fragments : <<1, n>> \in files})
    IN  response.status # 0 =>
          /\ request.kind = "transcription-status" =>
                response.body.progress =
                    percent(Cardinality(extractedText), Cardinality(finalExtracted))
          /\ request.kind = "translation-status" =>
                response.body.overallProgress =
                    percent(Cardinality(englishFiles), Cardinality(extractedText))
          /\ request.kind = "audio-status" =>
                response.body.overallProgress =
                    percent(hindi({p \in Pairs : mp3Files[p] > 0}),
                            hindi(translationFiles))

\* more transcripts than audio files: the progress reported is above 100
C24_Witness ==
    /\ request.kind = "transcription-status"
    /\ response.status = 200
    /\ Cardinality(extractedText) > Cardinality(finalExtracted)
    /\ Cardinality(finalExtracted) > 0
    /\ response.body.progress > 100

\* C25: a status request made while stage directories are missing is
\* answered, not failed: the transcription, translation and audio status
\* have zero counts and zero progress when the directories they list are
\* missing, and the extraction status is not_started when the extraction
\* directories are missing.
C25_MissingIsNotStarted ==
    [][response' # response /\ request.kind \in StatusKinds =>
        /\ response'.status = 200
        /\ request.kind = "extraction-status" /\ "ExtractedAudio" \notin dirs =>
              response'.body.status = "not_started"
        /\ request.kind = "transcription-status"
              /\ dirs \cap {"ExtractedAudio", "ExtractedText"} = {} =>
              response'.body = [totalAudioFiles |-> 0, transcribedFiles |-> 0,
                                progress |-> 0]
        /\ request.kind = "translation-status"
              /\ dirs \cap {"ExtractedText", "FinalTranslatedText"} = {} =>
              /\ response'.body.totalTranscriptions = 0
              /\ response'.body.translatedFiles = 0
              /\ response'.body.overallProgress = 0
        /\ request.kind = "audio-status"
              /\ dirs \cap {"FinalTranslatedText", "FinalTranslatedAudio"} = {} =>
              /\ response'.body.totalTranslations = 0
              /\ response'.body.processedAudioFiles = 0
              /\ response'.body.overallProgress = 0]_vars

\* the extraction status of a source none of whose directories exists
C25_Witness ==
    /\ request.kind = "extraction-status"
    /\ response.status = 200
    /\ response.body.status = "not_started"
    /\ dirs = {}

\* C26: serving a status request changes neither a file nor a directory of
\* the store.
C26_StatusReadOnly ==
    [][response' # response /\ request.kind \in StatusKinds =>
        /\ dirs' = dirs
        /\ UNCHANGED <<finalExtracted, extractedText, englishFiles,
                       translationFiles, wavFiles, mp3Files, partialMp3>>]_vars

C29_StopStops == isShuttingDown => ffmpegProcess \notin {"running", "killed"}

\* C28: once the source has been cancelled, the retry loops of the
\* coordinator exit: from some point on no retry is pending and no call of
\* the synthesis service is made.
C28_CancelObserved ==
    isShuttingDown ~>
        [](pc["coordinator"] \notin {"callApi", "retryLanguage", "retryFragment"})

\* C30: the coordinator makes a synthesis call for an index only in a pass
\* of processFragment that read a well-formed translation for every
\* language: a translation file that cannot be parsed, or that lacks
\* translation.text for some language, leads to no synthesis call.
C30_MalformedNotSynthesized ==
    pc["coordinator"] = "callApi" =>
        \A l \in LangIdx : translations["coordinator"][l] = "ok"

(***************************************************************************)
(* Claims about recovery, re-entrance and terminal states                  *)
(***************************************************************************)
\* C31: a coordinator started on a store whose indices 0..k-1 are complete
\* for every language makes no synthesis call below k: whenever it enters
\* the synthesis call, the output of that pair is missing and every index
\* below the current one is complete, so synthesis resumes at the first
\* index that lacks an output.
C31_ResumesFromStore ==
    [][(pc'["coordinator"] = "callApi" /\ pc["coordinator"] # "callApi") =>
          /\ ~Mp3Exists(lang'["coordinator"], currentFragment'["coordinator"])
          /\ \A n \in 0..(currentFragment'["coordinator"] - 1), l \in LangIdx :
                Mp3Exists(l, n)
          /\ \A l \in 1..(lang'["coordinator"] - 1) :
                Mp3Exists(l, currentFragment'["coordinator"])]_vars

\* the coordinator makes its synthesis call for the second language of
\* index 1 on a store that holds every output before that pair and no WAV
C31_Witness ==
    /\ pc["coordinator"] = "callApi"
    /\ currentFragment["coordinator"] = 1
    /\ lang["coordinator"] = 2
    /\ \A l \in LangIdx : Mp3Exists(l, 0)
    /\ Mp3Exists(1, 1) /\ ~Mp3Exists(2, 1)
    /\ wavFiles = {}

\* C32: a change notification for a transcription file that has already
\* been translated (its English file and the file of every target language
\* are written) is a no-op: its timer starts no translateText call.
C32_DoneIsTerminal ==
    [][\A k \in Notifications :
          (tlCall'[k].stage = "translateText" /\ tlCall[k].stage # "translateText") =>
              ~(/\ tlCall'[k].file \in englishFiles
                /\ \A l \in LangIdx : TranslationExists(l, tlCall'[k].file))]_vars

\* C33: a fragment whose transcript exists in ExtractedText when
\* setupTranscriptionWatcher starts is never transcribed again, neither by
\* the initial loop nor on a change notification.
C33_ProcessedSetRebuilt ==
    \A n \in AudioIdx : n \in extractedText => [](n \notin trStarted)

\* the watcher has passed over a notification for fragment 0, which was
\* found transcribed at startup and never given to transcribeAudioFragment
C33_Witness ==
    /\ trPhase = "watching"
    /\ 0 \in existingTranscriptions
    /\ 0 \notin trStarted
    /\ \E k \in Notifications : trNotif[k] = [file |-> 0, stage |-> "done"]

\* C34: saveAudioFile returns true only when the file at outputPath has
\* the length of the decoded buffer; for a missing argument or a buffer
\* below 100 bytes it returns false and leaves the file as it was; it always
\* returns true or false.
C34_WriteThenVerify ==
    [][saveCall'.result # saveCall.result =>
          /\ saveCall'.result \in {"true", "false"}
          /\ saveCall'.result = "true" =>
                /\ saveCall.audioDataURI = "data"
                /\ saveCall'.file = saveCall.length
          /\ (saveCall.audioDataURI = "missing" \/ saveCall.length < MinAudioBytes) =>
                /\ saveCall'.result = "false"
                /\ saveCall'.file = saveCall.file]_vars

\* a buffer of exactly 100 bytes was written and its size verified
C34_Witness ==
    /\ saveCall.audioDataURI = "data"
    /\ saveCall.length = MinAudioBytes
    /\ saveCall.file = MinAudioBytes
    /\ saveCall.result = "true"

\* C35: once status.json of a non-live extraction holds a terminal status
\* ('completed' or 'error'), no write replaces it by 'starting' or
\* 'processing'; and progress 100 is held only together with 'completed'.
C35_TerminalStatusFinal ==
    /\ [][statusJson.status \in {"completed", "error"} =>
             statusJson'.status \in {"completed", "error"}]_vars
    /\ [](statusJson.progress = 100 => statusJson.status = "completed")

\* C36: at most one live extraction pipeline of a source is running or
\* scheduled to start at any time.
C36_OnePipeline ==
    Cardinality({i \in 1..Len(chain) : chain[i].process = "running"})
        + restartTimers <= 1

\* C37: when processFragment has returned true for index N (the coordinator
\* is past N), every language has fragment-N.mp3 and none has
\* fragment-N.wav.
C37_NoWavLeft ==
    \A n \in 0..(currentFragment["coordinator"] - 1), l \in LangIdx :
        Mp3Exists(l, n) /\ ~WavExists(l, n)


\* C38: a failed transcription attempt leaves no completion marker: a step
\* in which a transcribeAudioFragment call ends without its file being
\* added to existingTranscriptions creates no file in ExtractedText
C38_FailureLeavesNoMarker ==
    [][(\/ \E k \in Notifications :
              /\ trNotif[k].stage = "transcribe"
              /\ trNotif'[k].stage = "done"
              /\ trNotif[k].file \notin existingTranscriptions'
        \/ \E file \in trLoopFile :
              /\ trLoopFile' = {}
              /\ file \notin existingTranscriptions')
         => extractedText' = extractedText]_vars


\* getProgress(): the currentFragment it reports is the field
\* this.currentFragment, which only the constructor assigns (to 0); the
\* loop of start() counts in a local variable of the same name.  The
\* languageProgress part of the result is a listing of the audio
\* directories and is left out
getProgress == [currentFragment |-> 0]

\* C39: getProgress reports in currentFragment the index the running
\* coordinator loop is working on
C39_ProgressTracksLoop ==
    getProgress.currentFragment = currentFragment["coordinator"]


\* C40: withRetry invokes the wrapped operation at most MAX_RETRIES times
\* (the invocation in progress is number retryI + 1); a failed invocation
\* before the last is followed by the next one, the failure of the last is
\* rethrown, and the call returns normally (the next chunk or saveAudioFile
\* follows) only in a step whose invocation succeeded
C40_AtMostMaxRetries ==
    /\ [](pc["coordinator"] = "callApi" => retryI["coordinator"] + 1 <= MAX_RETRIES)
    /\ [][pc["coordinator"] = "callApi" =>
            /\ faults' # faults =>
                  IF retryI["coordinator"] + 1 = MAX_RETRIES
                    THEN pc'["coordinator"] = "retryLanguage"
                    ELSE /\ pc'["coordinator"] = "callApi"
                         /\ retryI'["coordinator"] = retryI["coordinator"] + 1
                         /\ chunksLeft' = chunksLeft
            /\ pc'["coordinator"] = "retryLanguage" => faults' # faults
            /\ (\/ pc'["coordinator"] = "saveAudioFile"
                \/ /\ pc'["coordinator"] = "callApi"
                   /\ chunksLeft'["coordinator"] = chunksLeft["coordinator"] - 1)
                 => faults' = faults]_vars

\* the third invocation of one withRetry call is about to run, after two
\* failed ones, and it can fail too
C40_Witness ==
    /\ pc["coordinator"] = "callApi"
    /\ retryI["coordinator"] = MAX_RETRIES - 1
    /\ faults > 0

=============================================================================
